---- MODULE Spec2Model ----
(***************************************************************************)
(* Model of the GraphOS custom-check webhook handlers of this repository.  *)
(* The specification Spec follows one inbound request through one of the   *)
(* check handlers: customLint (src/src/eslint.ts: signature check,         *)
(* subgraph diff, batched document query, contact-directive rule,          *)
(* callback), the lint handler (src/src/index.ts) and pullRequestCheck     *)
(* (src/src/github.ts).  Each action is the code that runs between two     *)
(* awaits of a handler.                                                    *)
(***************************************************************************)
EXTENDS Integers, Sequences, FiniteSets, TLC

(***************************************************************************)
(* Bounds of the model                                                     *)
(***************************************************************************)
\* the most subgraph entries an event carries, base and proposed together
MaxSubgraphs == 3

\* the most entries of the base list and of the proposed list given to the
\* subgraph filter on its own
MaxBase == 2

MaxProposed == 3

\* the longest source text given to the source location mapper on its own
MaxText == 4

\* the requests one process handles at the same time
MaxRequests == 2

\* the schema-hash queries one run of getSchemaHashes may send
MaxPolls == 2

\* the items of a flat diff
MaxDiffItems == 2

(***************************************************************************)
(* Values the inputs are drawn from                                        *)
(***************************************************************************)
NL == "\n"

DQ == "\""

Names == {"a", "b"}

Hashes == {"h1", "h2"}

SupergraphHash == "hs"

Secrets == {"", "k1"}

ForeignSecret == "k2"

SubgraphRefs == [name : Names, hash : Hashes]

RECURSIVE SeqsUpTo(_, _)
SeqsUpTo(S, n) ==
    IF n = 0 THEN {<<>>}
    ELSE LET shorter == SeqsUpTo(S, n - 1)
         IN  shorter \cup {Append(s, x) : s \in {t \in shorter : Len(t) = n - 1}, x \in S}

Range(s) == {s[i] : i \in 1..Len(s)}

Min(a, b) == IF a < b THEN a ELSE b

\* Payload.baseSchema.subgraphs / proposedSchema.subgraphs: an array, or
\* absent / null (both read as "nullish" by ?? and ?.).
SubgraphLists(n) ==
    {[absent |-> TRUE, items |-> <<>>]}
        \cup {[absent |-> FALSE, items |-> s] : s \in SeqsUpTo(SubgraphRefs, n)}

\* checkStep of the event; pullRequestCheck reads the branch of the git
\* context from it (event.checkStep.gitContext.branch).
CheckSteps ==
    {[taskId |-> "t1", graphId |-> "g1", graphVariant |-> "v1", workflowId |-> "w1",
      branch |-> "main"]}

\* The Payload interface.
Events ==
    {e \in [baseSchema : [hash : {"hb"}, subgraphs : SubgraphLists(MaxSubgraphs)],
            proposedSchema : [hash : {SupergraphHash},
                              subgraphs : SubgraphLists(MaxSubgraphs)],
            checkStep : CheckSteps] :
        Len(e.baseSchema.subgraphs.items) + Len(e.proposedSchema.subgraphs.items)
            <= MaxSubgraphs}

(***************************************************************************)
(* The request body on the wire: a sequence of tokens.  Serialize is the   *)
(* sender's JSON encoding, JSONParse the handler's JSON.parse.             *)
(***************************************************************************)
RECURSIVE SerializeItems(_)
SerializeItems(items) ==
    IF items = <<>> THEN <<>>
    ELSE <<Head(items).name, Head(items).hash>> \o SerializeItems(Tail(items))

SerializeSubgraphs(s) ==
    IF s.absent THEN <<"null">> ELSE <<"[">> \o SerializeItems(s.items) \o <<"]">>

Serialize(e) ==
    <<"{", "baseSchema", e.baseSchema.hash>> \o SerializeSubgraphs(e.baseSchema.subgraphs)
        \o <<"proposedSchema", e.proposedSchema.hash>>
        \o SerializeSubgraphs(e.proposedSchema.subgraphs)
        \o <<"checkStep", e.checkStep.taskId, e.checkStep.graphId,
             e.checkStep.graphVariant, e.checkStep.workflowId, e.checkStep.branch, "}">>

EmptyBody == <<>>

EmptyObjectBody == <<"{", "}">>

MalformedBody == <<"{">>

Bodies == {Serialize(e) : e \in Events} \cup {EmptyBody, EmptyObjectBody, MalformedBody}

NoEvent ==
    [baseSchema |-> [hash |-> "", subgraphs |-> [absent |-> TRUE, items |-> <<>>]],
     proposedSchema |-> [hash |-> "", subgraphs |-> [absent |-> TRUE, items |-> <<>>]],
     checkStep |-> [taskId |-> "", graphId |-> "", graphVariant |-> "", workflowId |-> "",
                    branch |-> ""]]

At(tokens, i) == IF i \in 1..Len(tokens) THEN tokens[i] ELSE "<eof>"

RECURSIVE ParseItems(_, _, _)
ParseItems(tokens, i, acc) ==
    IF i > Len(tokens) THEN [ok |-> FALSE, absent |-> FALSE, items |-> acc, next |-> i]
    ELSE IF tokens[i] = "]" THEN [ok |-> TRUE, absent |-> FALSE, items |-> acc, next |-> i + 1]
    ELSE IF i + 1 > Len(tokens)
        THEN [ok |-> FALSE, absent |-> FALSE, items |-> acc, next |-> i]
    ELSE ParseItems(tokens, i + 2, Append(acc, [name |-> tokens[i], hash |-> tokens[i + 1]]))

ParseSubgraphs(tokens, i) ==
    IF At(tokens, i) = "null" THEN [ok |-> TRUE, absent |-> TRUE, items |-> <<>>, next |-> i + 1]
    ELSE IF At(tokens, i) = "[" THEN ParseItems(tokens, i + 1, <<>>)
    ELSE [ok |-> FALSE, absent |-> FALSE, items |-> <<>>, next |-> i]

\* JSON.parse(payload) followed by the first property reads of the handler:
\* the event, or what makes the handler throw.  '{}' parses to an object
\* without proposedSchema and checkStep, so the first nested property read
\* (event.proposedSchema.subgraphs, event.checkStep.taskId) throws a TypeError.
JSONParse(payload) ==
    LET base == ParseSubgraphs(payload, 4)
        proposed == ParseSubgraphs(payload, base.next + 2)
        step == proposed.next
        wellFormed ==
            /\ At(payload, 1) = "{"
            /\ At(payload, 2) = "baseSchema"
            /\ base.ok
            /\ At(payload, base.next) = "proposedSchema"
            /\ proposed.ok
            /\ At(payload, step) = "checkStep"
            /\ At(payload, step + 6) = "}"
            /\ Len(payload) = step + 6
    IN  IF payload = EmptyObjectBody
            THEN [thrown |-> "TypeError", event |-> NoEvent]
        ELSE IF ~wellFormed
            THEN [thrown |-> "SyntaxError", event |-> NoEvent]
        ELSE [thrown |-> "none",
              event |->
                [baseSchema |->
                    [hash |-> payload[3],
                     subgraphs |-> [absent |-> base.absent, items |-> base.items]],
                 proposedSchema |->
                    [hash |-> payload[base.next + 1],
                     subgraphs |-> [absent |-> proposed.absent, items |-> proposed.items]],
                 checkStep |->
                    [taskId |-> payload[step + 1], graphId |-> payload[step + 2],
                     graphVariant |-> payload[step + 3], workflowId |-> payload[step + 4],
                     branch |-> payload[step + 5]]]]

(***************************************************************************)
(* Signature Verifier                                                      *)
(***************************************************************************)
\* crypto.createHmac('sha256', key).update(msg): an ideal MAC, a different
\* digest for every different (key, message) pair.
Hmac(key, msg) == [key |-> key, msg |-> msg]

\* digest('hex'): lower-case hexadecimal digits of the digest.
HexDigest(d) == [digest |-> d, case |-> "lower"]

NoHeader == [present |-> FALSE, prefix |-> "", hex |-> HexDigest(Hmac("", <<>>))]

SignatureHeader(prefix, hex) == [present |-> TRUE, prefix |-> prefix, hex |-> hex]

\* `sha256=${hmac.digest('hex')}`
CalculatedSignature(hmacSecret, payload) ==
    SignatureHeader("sha256=", HexDigest(Hmac(hmacSecret, payload)))

\* (await req.text()) || '{}'
ReadPayload(body) == IF body = EmptyBody THEN EmptyObjectBody ELSE body

\* isAuthorized with a comparison that ignores the case of the hex digits
isAuthorizedIgnoreCase(providedSignature, secret, payload) ==
    /\ providedSignature.present
    /\ providedSignature.prefix = "sha256="
    /\ providedSignature.hex.digest = Hmac(secret, payload)

isAuthorized(providedSignature, hmacSecret, payload) ==
    providedSignature = CalculatedSignature(hmacSecret, payload)

\* Headers a sender may put on a request with body b when the receiver's
\* secret is s: none, the signature of b or of another message under the
\* right or a foreign secret, and single-character changes of the right one.
HeadersFor(s, b) ==
    {NoHeader}
        \cup {CalculatedSignature(s, m) : m \in {b, EmptyBody, EmptyObjectBody}}
        \cup {CalculatedSignature(ForeignSecret, b)}
        \cup {SignatureHeader("sha256:", HexDigest(Hmac(s, b))),
              SignatureHeader("sha256=", [digest |-> Hmac(s, b), case |-> "upper"])}

(***************************************************************************)
(* Subgraph Diff Engine                                                    *)
(***************************************************************************)
Undefined == [found |-> FALSE, name |-> "", hash |-> ""]

\* Array.prototype.find on the base list: the first entry of that name.
RECURSIVE FindByName(_, _)
FindByName(items, name) ==
    IF items = <<>> THEN Undefined
    ELSE IF Head(items).name = name
        THEN [found |-> TRUE, name |-> Head(items).name, hash |-> Head(items).hash]
    ELSE FindByName(Tail(items), name)

\* IsChanged without the case of a name that base does not hold
IsChangedKnownOnly(base, proposedSubgraph) ==
    LET hit == IF base.absent THEN Undefined
               ELSE FindByName(base.items, proposedSubgraph.name)
    IN  hit.found /\ hit.hash # proposedSubgraph.hash

\* event.baseSchema.subgraphs?.find(...)?.hash !== proposedSubgraph.hash
IsChanged(base, proposedSubgraph) ==
    LET hit == IF base.absent THEN Undefined
               ELSE FindByName(base.items, proposedSubgraph.name)
    IN  (~hit.found) \/ hit.hash # proposedSubgraph.hash

\* FilterChanged that collects the kept entries last-first
RECURSIVE FilterChangedReversed(_, _)
FilterChangedReversed(base, items) ==
    IF items = <<>> THEN <<>>
    ELSE IF IsChanged(base, Head(items))
        THEN FilterChangedReversed(base, Tail(items)) \o <<Head(items)>>
    ELSE FilterChangedReversed(base, Tail(items))

RECURSIVE FilterChanged(_, _)
FilterChanged(base, items) ==
    IF items = <<>> THEN <<>>
    ELSE IF IsChanged(base, Head(items))
        THEN <<Head(items)>> \o FilterChanged(base, Tail(items))
    ELSE FilterChanged(base, Tail(items))

\* changedSubgraphs that reports nothing when base has no subgraph list
changedSubgraphsNeedsBase(base, proposed) ==
    IF base.absent \/ proposed.absent THEN <<>> ELSE FilterChanged(base, proposed.items)

\* (event.proposedSchema.subgraphs ?? []).filter(...)
changedSubgraphs(base, proposed) ==
    FilterChanged(base, IF proposed.absent THEN <<>> ELSE proposed.items)

RECURSIVE MapHash(_)
MapHash(items) ==
    IF items = <<>> THEN <<>> ELSE <<Head(items).hash>> \o MapHash(Tail(items))

\* HashesToFetch that asks for the supergraph document only
HashesToFetchSupergraphOnly(event, changed) == <<event.proposedSchema.hash>>

\* hashes: [event.proposedSchema.hash, ...changedSubgraphs.map((s) => s.hash)]
HashesToFetch(event, changed) == <<event.proposedSchema.hash>> \o MapHash(changed)

(***************************************************************************)
(* Source Location Mapper                                                  *)
(***************************************************************************)
\* code.split('\n'): the lines are the stretches of the text between two
\* neighbouring separators, the start and the end of the text included; a
\* text with n separators has n + 1 lines
SeparatorPositions(code) == {i \in 1..Len(code) : code[i] = NL}

\* the position of the k-th separator of the text
SeparatorAt(code, k) ==
    CHOOSE i \in SeparatorPositions(code) :
        Cardinality({j \in SeparatorPositions(code) : j < i}) = k - 1

Split(code) ==
    LET n == Cardinality(SeparatorPositions(code))
    IN  [k \in 1..(n + 1) |->
            SubSeq(code,
                   IF k = 1 THEN 1 ELSE SeparatorAt(code, k - 1) + 1,
                   IF k = n + 1 THEN Len(code) ELSE SeparatorAt(code, k) - 1)]

\* lines.join('\n')
RECURSIVE Join(_)
Join(lines) ==
    IF lines = <<>> THEN <<>>
    ELSE IF Len(lines) = 1 THEN lines[1]
    ELSE lines[1] \o <<NL>> \o Join(Tail(lines))

\* Array.prototype.slice(0, n) and String.prototype.slice(0, n) for n >= 0
SliceTo(s, n) == SubSeq(s, 1, Min(n, Len(s)))

\* Array.prototype.slice(0, -1)
DropLast(s) == SubSeq(s, 1, Len(s) - 1)

\* getSourceLocationCoordinate that keeps the first column-1 characters of the
\* last line
getSourceLocationCoordinateExclusive(code, line, column) ==
    LET lines == SliceTo(Split(code), line)
        lastLine == lines[Len(lines)]
    IN  [line |-> line,
         column |-> column,
         byteOffset |->
             Len(Join(Append(DropLast(lines), SliceTo(lastLine, column - 1)))) - 1]

getSourceLocationCoordinate(code, line, column) ==
    LET lines == SliceTo(Split(code), line)
        lastLine == lines[Len(lines)]
    IN  [line |-> line,
         column |-> column,
         byteOffset |-> Len(Join(Append(DropLast(lines), SliceTo(lastLine, column)))) - 1]

\* end: endLocationCoordinate || startLocationCoordinate; an object is truthy.
getSourceLocationInformation(subgraph, code, directive) ==
    [subgraphName |-> subgraph.name,
     start |-> getSourceLocationCoordinate(code, directive.startLine, directive.startColumn),
     end |-> getSourceLocationCoordinate(code, directive.endLine, directive.endColumn)]

(***************************************************************************)
(* Subgraph SDL documents and graphql's parse                              *)
(***************************************************************************)
SourceIds ==
    {"sdlOk", "sdlEmptyUrl", "sdlNoDescription", "sdlTwoFaults", "sdlNoContact",
     "sdlInvalid"}

\* extend schema
\* @contact(name:"T",url:"u",description:"d")
TextOk ==
    <<"e", "x", "t", "e", "n", "d", " ", "s", "c", "h", "e", "m", "a", NL,
      "@", "c", "o", "n", "t", "a", "c", "t", "(", "n", "a", "m", "e", ":", DQ, "T", DQ,
      ",", "u", "r", "l", ":", DQ, "u", DQ, ",", "d", "e", "s", "c", "r", "i", "p", "t",
      "i", "o", "n", ":", DQ, "d", DQ, ")">>

\* extend schema
\* @contact(name:"T",url:"",description:"d")
TextEmptyUrl ==
    <<"e", "x", "t", "e", "n", "d", " ", "s", "c", "h", "e", "m", "a", NL,
      "@", "c", "o", "n", "t", "a", "c", "t", "(", "n", "a", "m", "e", ":", DQ, "T", DQ,
      ",", "u", "r", "l", ":", DQ, DQ, ",", "d", "e", "s", "c", "r", "i", "p", "t",
      "i", "o", "n", ":", DQ, "d", DQ, ")">>

\* extend schema
\* @contact(name:"T",url:"u")
TextNoDescription ==
    <<"e", "x", "t", "e", "n", "d", " ", "s", "c", "h", "e", "m", "a", NL,
      "@", "c", "o", "n", "t", "a", "c", "t", "(", "n", "a", "m", "e", ":", DQ, "T", DQ,
      ",", "u", "r", "l", ":", DQ, "u", DQ, ")">>

\* extend schema
\* @contact(name:"T",url:"")
TextTwoFaults ==
    <<"e", "x", "t", "e", "n", "d", " ", "s", "c", "h", "e", "m", "a", NL,
      "@", "c", "o", "n", "t", "a", "c", "t", "(", "n", "a", "m", "e", ":", DQ, "T", DQ,
      ",", "u", "r", "l", ":", DQ, DQ, ")">>

\* schema{query:Q}
TextNoContact ==
    <<"s", "c", "h", "e", "m", "a", "{", "q", "u", "e", "r", "y", ":", "Q", "}">>

\* type {
TextInvalid == <<"t", "y", "p", "e", " ", "{">>

\* extend schema @link(url:"l")
TextLink ==
    <<"e", "x", "t", "e", "n", "d", " ", "s", "c", "h", "e", "m", "a", " ",
      "@", "l", "i", "n", "k", "(", "u", "r", "l", ":", DQ, "l", DQ, ")">>

\* type Q{a:Int}
TextTypeOnly == <<"t", "y", "p", "e", " ", "Q", "{", "a", ":", "I", "n", "t", "}">>

\* schema{query:Q} extend schema
\* @contact(name:"T",url:"u",description:"d")
TextDefinitionThenContact == TextNoContact \o <<" ">> \o TextOk

\* extend schema
\* @contact(name:"T",url:"u",description:"d") schema{query:Q}
TextContactThenDefinition == TextOk \o <<" ">> \o TextNoContact

\* extend schema @link(url:"l") extend schema
\* @contact(name:"T",url:"u",description:"d")
TextLinkThenContact == TextLink \o <<" ">> \o TextOk

\* schema{query:Q} extend schema @link(url:"l")
TextDefinitionThenLink == TextNoContact \o <<" ">> \o TextLink

\* documents with several schema blocks, or with none
BlockSourceIds ==
    {"sdlDefinitionThenContact", "sdlContactThenDefinition", "sdlLinkThenContact",
     "sdlDefinitionThenLink", "sdlTypeOnly"}

SourceText(id) ==
    CASE id = "sdlOk" -> TextOk
      [] id = "sdlDefinitionThenContact" -> TextDefinitionThenContact
      [] id = "sdlContactThenDefinition" -> TextContactThenDefinition
      [] id = "sdlLinkThenContact" -> TextLinkThenContact
      [] id = "sdlDefinitionThenLink" -> TextDefinitionThenLink
      [] id = "sdlTypeOnly" -> TextTypeOnly
      [] id = "sdlEmptyUrl" -> TextEmptyUrl
      [] id = "sdlNoDescription" -> TextNoDescription
      [] id = "sdlTwoFaults" -> TextTwoFaults
      [] id = "sdlNoContact" -> TextNoContact
      [] OTHER -> TextInvalid

\* A directive node: its name, its arguments as {field, value} pairs and the
\* line/column of loc.startToken ('@') and loc.endToken (')').
ContactDirective(arguments, endColumn) ==
    [name |-> "contact", arguments |-> arguments,
     startLine |-> 2, startColumn |-> 1, endLine |-> 2, endColumn |-> endColumn]

\* the complete directive @contact(name:"T",url:"u",description:"d") on line 2
CompleteContact ==
    ContactDirective(<<[field |-> "name", value |-> "T"],
                       [field |-> "url", value |-> "u"],
                       [field |-> "description", value |-> "d"]>>,
                     Len(TextOk) - 14)

\* the directive @link(url:"l") on line 1, after the text that precedes it
LinkDirective(preceding) ==
    [name |-> "link", arguments |-> <<[field |-> "url", value |-> "l"]>>,
     startLine |-> 1, startColumn |-> preceding + 15,
     endLine |-> 1, endColumn |-> preceding + Len(TextLink)]

\* parse(code): the definitions of the document, or a thrown GraphQLError.
parse(id) ==
    CASE id = "sdlDefinitionThenContact" ->
            [thrown |-> "none",
             definitions |->
                <<[kind |-> "SchemaDefinition", directives |-> <<>>],
                  [kind |-> "SchemaExtension", directives |-> <<CompleteContact>>]>>]
      [] id = "sdlContactThenDefinition" ->
            [thrown |-> "none",
             definitions |->
                <<[kind |-> "SchemaExtension", directives |-> <<CompleteContact>>],
                  [kind |-> "SchemaDefinition", directives |-> <<>>]>>]
      [] id = "sdlLinkThenContact" ->
            [thrown |-> "none",
             definitions |->
                <<[kind |-> "SchemaExtension", directives |-> <<LinkDirective(0)>>],
                  [kind |-> "SchemaExtension", directives |-> <<CompleteContact>>]>>]
      [] id = "sdlDefinitionThenLink" ->
            [thrown |-> "none",
             definitions |->
                <<[kind |-> "SchemaDefinition", directives |-> <<>>],
                  [kind |-> "SchemaExtension",
                   directives |-> <<LinkDirective(Len(TextNoContact) + 1)>>]>>]
      [] id = "sdlTypeOnly" ->
            [thrown |-> "none",
             definitions |-> <<[kind |-> "ObjectTypeDefinition", directives |-> <<>>]>>]
      [] id = "sdlOk" ->
            [thrown |-> "none",
             definitions |->
                <<[kind |-> "SchemaExtension",
                   directives |->
                      <<ContactDirective(<<[field |-> "name", value |-> "T"],
                                           [field |-> "url", value |-> "u"],
                                           [field |-> "description", value |-> "d"]>>,
                                         Len(TextOk) - 14)>>]>>]
      [] id = "sdlEmptyUrl" ->
            [thrown |-> "none",
             definitions |->
                <<[kind |-> "SchemaExtension",
                   directives |->
                      <<ContactDirective(<<[field |-> "name", value |-> "T"],
                                           [field |-> "url", value |-> ""],
                                           [field |-> "description", value |-> "d"]>>,
                                         Len(TextEmptyUrl) - 14)>>]>>]
      [] id = "sdlNoDescription" ->
            [thrown |-> "none",
             definitions |->
                <<[kind |-> "SchemaExtension",
                   directives |->
                      <<ContactDirective(<<[field |-> "name", value |-> "T"],
                                           [field |-> "url", value |-> "u"]>>,
                                         Len(TextNoDescription) - 14)>>]>>]
      [] id = "sdlTwoFaults" ->
            [thrown |-> "none",
             definitions |->
                <<[kind |-> "SchemaExtension",
                   directives |->
                      <<ContactDirective(<<[field |-> "name", value |-> "T"],
                                           [field |-> "url", value |-> ""]>>,
                                         Len(TextTwoFaults) - 14)>>]>>]
      [] id = "sdlNoContact" ->
            [thrown |-> "none",
             definitions |-> <<[kind |-> "SchemaDefinition", directives |-> <<>>]>>]
      [] OTHER -> [thrown |-> "GraphQLError", definitions |-> <<>>]

(***************************************************************************)
(* Document Resolver responses                                             *)
(***************************************************************************)
\* What the resolver answers for one requested hash: no entry, a null
\* entry, an entry whose source is null, or an entry with a source text.
DocOutcomes == {"missing", "nullEntry", "nullSource"} \cup SourceIds

DocEntry(hash, outcome) ==
    [isNull |-> outcome = "nullEntry",
     hash |-> IF outcome = "nullEntry" THEN "" ELSE hash,
     source |-> [isString |-> outcome \in SourceIds \cup BlockSourceIds,
                 id |-> IF outcome \in SourceIds \cup BlockSourceIds THEN outcome ELSE ""]]

RECURSIVE BuildDocs(_, _)
BuildDocs(hashes, f) ==
    IF hashes = <<>> THEN <<>>
    ELSE IF f[Head(hashes)] = "missing" THEN BuildDocs(Tail(hashes), f)
    ELSE <<DocEntry(Head(hashes), f[Head(hashes)])>> \o BuildDocs(Tail(hashes), f)

\* { data: { graph: null } }, also what the .catch handler of the query returns
GraphNull == [graphNull |-> TRUE, docsNull |-> TRUE, docs |-> <<>>]

DocsNull == [graphNull |-> FALSE, docsNull |-> TRUE, docs |-> <<>>]

DocsList(docs) == [graphNull |-> FALSE, docsNull |-> FALSE, docs |-> docs]

ResolverResponses(hashes) ==
    {GraphNull, DocsNull}
        \cup {DocsList(BuildDocs(hashes,
                                 [h \in Range(hashes) |->
                                     IF h = SupergraphHash THEN "sdlNoContact" ELSE f[h]])) :
                f \in [Range(hashes) \ {SupergraphHash} -> DocOutcomes]}

NotAString == [isString |-> FALSE, id |-> ""]

RECURSIVE FindSource(_, _)
FindSource(docs, hash) ==
    IF docs = <<>> THEN NotAString
    ELSE IF (~Head(docs).isNull) /\ Head(docs).hash = hash THEN Head(docs).source
    ELSE FindSource(Tail(docs), hash)

\* docsResult.data.graph?.docs?.find((doc) => doc?.hash === subgraph.hash)?.source
SourceOf(docsResult, hash) ==
    IF docsResult.graphNull \/ docsResult.docsNull THEN NotAString
    ELSE FindSource(docsResult.docs, hash)

(***************************************************************************)
(* Rule Evaluator: the contact directive rule of customLint                *)
(***************************************************************************)
ContactRule == "Must contain a properly formatted @contact directive for each subgraph"

NullViolation ==
    [isNull |-> TRUE, level |-> "", message |-> "", rule |-> "", sourceLocations |-> <<>>]

Violation(level, message, sourceLocations) ==
    [isNull |-> FALSE, level |-> level, message |-> message, rule |-> ContactRule,
     sourceLocations |-> sourceLocations]

NoNode == [found |-> FALSE, index |-> 0]

IsSchemaNode(doc) == doc.kind = "SchemaDefinition" \/ doc.kind = "SchemaExtension"

IsContact(directive) == directive.name = "contact"

\* parsedSchema.definitions.find(...): the first schema definition or extension
FindSchemaDefinition(definitions) ==
    IF \E i \in 1..Len(definitions) : IsSchemaNode(definitions[i])
        THEN [found |-> TRUE,
              index |-> CHOOSE i \in 1..Len(definitions) :
                            /\ IsSchemaNode(definitions[i])
                            /\ \A j \in 1..(i - 1) : ~IsSchemaNode(definitions[j])]
    ELSE NoNode

\* schemaDefinition?.directives?.find(...): the first directive named contact
FindContactDirective(directives) ==
    IF \E i \in 1..Len(directives) : IsContact(directives[i])
        THEN [found |-> TRUE,
              index |-> CHOOSE i \in 1..Len(directives) :
                            /\ IsContact(directives[i])
                            /\ \A j \in 1..(i - 1) : ~IsContact(directives[j])]
    ELSE NoNode

RequiredFields == <<"name", "url", "description">>

\* allFieldsHaveValues that is content with one argument that has a value
someFieldHasValue(contactSchemaFields) ==
    \E i \in 1..Len(contactSchemaFields) :
        contactSchemaFields[i].field # "" /\ contactSchemaFields[i].value # ""

\* contactSchemaFields?.every(({ field, value }) => Boolean(field) && Boolean(value))
allFieldsHaveValues(contactSchemaFields) ==
    \A i \in 1..Len(contactSchemaFields) :
        contactSchemaFields[i].field # "" /\ contactSchemaFields[i].value # ""

\* ['name', 'url', 'description'].every((n) => contactSchemaFieldNames?.includes(n))
hasAllRequiredFields(contactSchemaFields) ==
    LET contactSchemaFieldNames ==
            {contactSchemaFields[i].field : i \in 1..Len(contactSchemaFields)}
    IN  \A i \in 1..Len(RequiredFields) : RequiredFields[i] \in contactSchemaFieldNames

\* The callback of changedSubgraphs.map: null, one violation object, or an
\* array of violations; or a thrown error.
EvaluateSubgraph(subgraph, docsResult) ==
    LET code == SourceOf(docsResult, subgraph.hash)
        parsedSchema == parse(code.id)
        schemaDefinition == FindSchemaDefinition(parsedSchema.definitions)
        directives == IF schemaDefinition.found
                          THEN parsedSchema.definitions[schemaDefinition.index].directives
                          ELSE <<>>
        contactSchemaDirective == FindContactDirective(directives)
        directive == directives[contactSchemaDirective.index]
        contactSchemaFields == directive.arguments
        loc == getSourceLocationInformation(subgraph, SourceText(code.id), directive)
    IN  IF ~code.isString
            THEN [thrown |-> "none", kind |-> "null", items |-> <<>>]
        ELSE IF parsedSchema.thrown # "none"
            THEN [thrown |-> parsedSchema.thrown, kind |-> "null", items |-> <<>>]
        ELSE IF ~contactSchemaDirective.found
            THEN [thrown |-> "none", kind |-> "object",
                  items |-> <<Violation("ERROR",
                                        "Subgraphs must contain a contact directive",
                                        <<>>)>>]
        ELSE [thrown |-> "none", kind |-> "array",
              items |->
                  (IF ~hasAllRequiredFields(contactSchemaFields)
                      THEN <<Violation("ERROR",
                               "Contact directive must have a name, url, and description",
                               <<loc>>)>>
                      ELSE <<>>)
                  \o
                  (IF ~allFieldsHaveValues(contactSchemaFields)
                      THEN <<Violation("ERROR",
                               "Contact directive values are not all present",
                               <<loc>>)>>
                      ELSE <<>>)]

\* changedSubgraphs.map(...): stops at the first callback that throws
RECURSIVE MapEvaluate(_, _)
MapEvaluate(subgraphs, docsResult) ==
    IF subgraphs = <<>> THEN [thrown |-> "none", results |-> <<>>]
    ELSE LET first == EvaluateSubgraph(Head(subgraphs), docsResult)
             rest == MapEvaluate(Tail(subgraphs), docsResult)
         IN  IF first.thrown # "none" THEN [thrown |-> first.thrown, results |-> <<>>]
             ELSE IF rest.thrown # "none" THEN rest
             ELSE [thrown |-> "none", results |-> <<first>> \o rest.results]

\* Array.prototype.flat: arrays are spliced in, null and objects are kept
RECURSIVE Flat(_)
Flat(results) ==
    IF results = <<>> THEN <<>>
    ELSE (CASE Head(results).kind = "null" -> <<NullViolation>>
            [] Head(results).kind = "object" -> Head(results).items
            [] OTHER -> Head(results).items)
         \o Flat(Tail(results))

(***************************************************************************)
(* Result Aggregator & Reporter                                            *)
(***************************************************************************)
\* violationResults.some((v) => v === null || v.level === 'ERROR')
IsFailing(violation) == violation.isNull \/ violation.level = "ERROR"

\* CheckStatus as the earlier revision of the handler had it: status: 'SUCCESS'
CheckStatusHardcoded(violationResults) == "SUCCESS"

CheckStatus(violationResults) ==
    IF \E i \in 1..Len(violationResults) : IsFailing(violationResults[i])
        THEN "FAILURE" ELSE "SUCCESS"

\* variables of the customCheckCallback mutation
CallbackVariables(event, violationResults) ==
    [graphId |-> event.checkStep.graphId,
     name |-> event.checkStep.graphVariant,
     input |-> [taskId |-> event.checkStep.taskId,
                workflowId |-> event.checkStep.workflowId,
                status |-> CheckStatus(violationResults),
                violations |-> violationResults]]

\* variables of the SourceCode query
DocsVariables(event, changed) ==
    [graphId |-> event.checkStep.graphId, hashes |-> HashesToFetch(event, changed)]

NoResponse == [sent |-> FALSE, status |-> 0, body |-> ""]

Response(body, status) == [sent |-> TRUE, status |-> status, body |-> body]

\* HandlerResponse with the two branches exchanged
HandlerResponseSwapped(shouldProceed) ==
    IF shouldProceed THEN Response("Signature is invalid", 403) ELSE Response("OK", 200)

\* the two return statements of the handler
HandlerResponse(shouldProceed) ==
    IF shouldProceed THEN Response("OK", 200) ELSE Response("Signature is invalid", 403)

\* What the customCheckCallback mutation answers: the result, a typed error,
\* or GraphQL errors
CallbackResults ==
    {"CustomCheckResult", "PermissionError", "TaskError", "ValidationError", "graphQLErrors"}

(***************************************************************************)
(* The lint ruleset handler (src/src/index.ts, first default export)       *)
(***************************************************************************)
NamingConvention == "@graphql-eslint/naming-convention"

RequireDescription == "@graphql-eslint/require-description"

\* One message of linter.verify: ruleId is null for a fatal parse error, and
\* endLine / endColumn are optional.
LintMessage(hasRuleId, ruleId, severity, hasEnd) ==
    [hasRuleId |-> hasRuleId, ruleId |-> ruleId, severity |-> severity,
     message |-> "lint finding", line |-> 1, column |-> 1,
     hasEnd |-> hasEnd, endLine |-> 1, endColumn |-> 5]

\* the rules of the schema-recommended configuration report with severity
\* "error", as a fatal parse error does
NamingFinding == LintMessage(TRUE, NamingConvention, "error", TRUE)

DescriptionFinding == LintMessage(TRUE, RequireDescription, "error", TRUE)

FatalFinding == LintMessage(FALSE, "", "error", FALSE)

\* What linter.verify may return for a source text.
LintReports ==
    {<<>>, <<DescriptionFinding>>, <<NamingFinding>>, <<FatalFinding>>,
     <<DescriptionFinding, NamingFinding>>}

\* messages.map(violation => ({ level, message, rule, sourceLocations }))
LintViolation(violation) ==
    [isNull |-> FALSE,
     level |-> IF violation.hasRuleId /\ violation.ruleId = NamingConvention
                   THEN "ERROR" ELSE "WARNING",
     message |-> violation.message,
     rule |-> IF violation.hasRuleId THEN violation.ruleId ELSE "unknown",
     sourceLocations |->
         [start |-> [byteOffset |-> 0, defined |-> TRUE,
                     line |-> violation.line, column |-> violation.column],
          end |-> [byteOffset |-> 0, defined |-> violation.hasEnd,
                   line |-> violation.endLine, column |-> violation.endColumn]]]

RECURSIVE MapLintViolation(_)
MapLintViolation(messages) ==
    IF messages = <<>> THEN <<>>
    ELSE <<LintViolation(Head(messages))>> \o MapLintViolation(Tail(messages))

\* violations.find(violation => violation.level === 'ERROR') !== undefined
LintStatus(violations) ==
    IF \E i \in 1..Len(violations) : violations[i].level = "ERROR"
        THEN "FAILURE" ELSE "SUCCESS"

LintCallbackVariables(event, violations) ==
    [graphId |-> event.checkStep.graphId,
     name |-> event.checkStep.graphVariant,
     input |-> [taskId |-> event.checkStep.taskId,
                workflowId |-> event.checkStep.workflowId,
                status |-> LintStatus(violations),
                violations |-> violations]]

\* variables of the Doc query: the supergraph hash only
DocVariables(event) ==
    [graphId |-> event.checkStep.graphId, hashes |-> <<event.proposedSchema.hash>>]

\* graph: null, doc: null, or a doc with a source or with a null source
DocResponses(hash) ==
    {GraphNull, DocsNull, DocsList(<<DocEntry(hash, "nullSource")>>),
     DocsList(<<DocEntry(hash, "sdlNoContact")>>)}

(***************************************************************************)
(* The pull request handler (src/src/github.ts)                            *)
(***************************************************************************)
\* prResult.data.repository.pullRequests.totalCount
TotalCounts == {0, 1}

\* status: totalCount > 0 ? 'SUCCESS' : 'FAILURE', violations: []
PullRequestCallbackVariables(event, totalCount) ==
    [graphId |-> event.checkStep.graphId,
     name |-> event.checkStep.graphVariant,
     input |-> [taskId |-> event.checkStep.taskId,
                workflowId |-> event.checkStep.workflowId,
                status |-> IF totalCount > 0 THEN "SUCCESS" ELSE "FAILURE",
                violations |-> <<>>]]

(***************************************************************************)
(* One inbound request, handled by one of the check handlers               *)
(***************************************************************************)
Handlers == {"customLint", "lint", "pullRequestCheck"}

\* How the callback mutation can end.
CallbackOutcomes == CallbackResults \cup {"networkError"}

\* apolloClient.mutate resolves with data and typed errors; GraphQL errors
\* resolve only under errorPolicy 'all' (customLint), a network error never.
MutateResolves(h, outcome) ==
    \/ outcome \in CallbackResults \ {"graphQLErrors"}
    \/ outcome = "graphQLErrors" /\ h = "customLint"

VARIABLES
    handler,            \* the function the request is routed to
    hmacSecret,         \* Netlify.env.get('APOLLO_HMAC_TOKEN') || ''
    req,                \* the inbound request: raw body and x-apollo-signature
    pc,                 \* where the handler is
    payload,            \* (await req.text()) || '{}'
    event,              \* JSON.parse(payload)
    changed,            \* changedSubgraphs
    resolverCalls,      \* the docs queries sent so far
    githubCalls,        \* the pull request queries sent so far
    docsFetch,          \* how the docs query ended: "none", "resolved", "rejected"
    docsResult,         \* what the docs query resolved to (or the .catch fallback)
    messages,           \* what linter.verify returned (lint handler)
    violationResults,   \* the violations computed for the callback
    callbacks,          \* the callback mutations sent so far
    callbackResult,     \* how the callback mutation ended
    response,           \* the HTTP response returned by the handler
    thrown,             \* the error the handler's promise rejected with
    diffBase,           \* SpecDiff: baseSchema.subgraphs given to the filter
    diffProposed,       \* SpecDiff: proposedSchema.subgraphs given to the filter
    diffResult,         \* SpecDiff: the filter's result
    diffAgain,          \* SpecDiff: the filter's result on its own result
    srcText,            \* SpecMapper: code
    srcLine,            \* SpecMapper: line
    srcColumn,          \* SpecMapper: column
    coordinate,         \* SpecMapper: what getSourceLocationCoordinate returned
    cache,              \* SpecProcess: apolloClient's InMemoryCache
    requests,           \* SpecProcess: the requests the process is handling
    rule,               \* SpecRule: one call of the map callback of customLint
    proposal            \* SpecProposals: one run of applyReviewers

requestVars ==
    <<handler, hmacSecret, req, pc, payload, event, changed, resolverCalls, githubCalls,
      docsFetch, docsResult, messages, violationResults, callbacks, callbackResult,
      response, thrown>>

diffVars == <<diffBase, diffProposed, diffResult, diffAgain>>

mapperVars == <<srcText, srcLine, srcColumn, coordinate>>

processVars == <<cache, requests>>

ruleVars == <<rule>>

proposalVars == <<proposal>>

\* the variables the single-request specification Spec leaves alone
otherVars == <<diffVars, mapperVars, processVars, ruleVars, proposalVars>>

vars == <<requestVars, otherVars>>

\* a result not computed yet, and a computed one
Pending == [pending |-> TRUE, value |-> <<>>]

Computed(v) == [pending |-> FALSE, value |-> v]

\* no filter call in progress
DiffIdle ==
    /\ diffBase = [absent |-> TRUE, items |-> <<>>]
    /\ diffProposed = [absent |-> TRUE, items |-> <<>>]
    /\ diffResult = Pending
    /\ diffAgain = Pending

\* no mapper call in progress
MapperIdle ==
    /\ srcText = <<>>
    /\ srcLine = 0
    /\ srcColumn = 0
    /\ coordinate = Pending

\* no second request in the process
ProcessIdle ==
    /\ cache = {}
    /\ requests = <<>>

\* no call of the map callback on its own
RuleIdle ==
    rule = [subgraph |-> [name |-> "", hash |-> ""], docsResult |-> GraphNull,
            result |-> Pending]

\* no proposal notification being handled
ProposalIdle == proposal = [pc |-> "idle"]

\* the state of one request before its handler starts
RequestInit ==
    /\ pc = "start"
    /\ payload = <<>>
    /\ event = NoEvent
    /\ changed = <<>>
    /\ resolverCalls = <<>>
    /\ githubCalls = <<>>
    /\ docsFetch = "none"
    /\ docsResult = GraphNull
    /\ messages = <<>>
    /\ violationResults = <<>>
    /\ callbacks = <<>>
    /\ callbackResult = "none"
    /\ response = NoResponse
    /\ thrown = "none"

\* no request routed to a handler of Spec
RequestIdle ==
    /\ handler = "customLint"
    /\ hmacSecret = ""
    /\ req = [body |-> EmptyBody, signature |-> NoHeader]
    /\ RequestInit

\* Only customLint reads the subgraph lists of the event (changedSubgraphs);
\* lint and pullRequestCheck read checkStep alone, so their requests carry
\* events without the lists.
BodiesOf(h) ==
    IF h = "customLint"
    THEN Bodies
    ELSE {Serialize(e) : e \in {ev \in Events : /\ ev.baseSchema.subgraphs.absent
                                                /\ ev.proposedSchema.subgraphs.absent}}
             \cup {EmptyBody, EmptyObjectBody, MalformedBody}

Init ==
    /\ handler \in Handlers
    /\ hmacSecret \in Secrets
    /\ \E b \in BodiesOf(handler) :
           \E h \in HeadersFor(hmacSecret, b) : req = [body |-> b, signature |-> h]
    /\ RequestInit
    /\ DiffIdle
    /\ MapperIdle
    /\ ProcessIdle
    /\ RuleIdle
    /\ ProposalIdle

\* const payload = (await req.text()) || '{}';
ReadBody ==
    /\ pc = "start"
    /\ payload' = ReadPayload(req.body)
    /\ pc' = "read"
    /\ UNCHANGED <<otherVars, messages,
                   handler, hmacSecret, req, event, changed, resolverCalls, githubCalls,
                   docsFetch, docsResult, violationResults, callbacks, callbackResult,
                   response, thrown>>

\* the signature does not match:
\* return new Response('Signature is invalid', { status: 403 })
RejectSignature ==
    /\ pc = "read"
    /\ ~isAuthorized(req.signature, hmacSecret, payload)
    /\ response' = HandlerResponse(FALSE)
    /\ pc' = "done"
    /\ UNCHANGED <<otherVars, messages,
                   handler, hmacSecret, req, payload, event, changed, resolverCalls,
                   githubCalls, docsFetch, docsResult, violationResults, callbacks,
                   callbackResult, thrown>>

\* customLint, shouldProceed is true: parse the event, diff the subgraphs,
\* send the docs query
DiffAndQuery ==
    /\ handler = "customLint"
    /\ pc = "read"
    /\ isAuthorized(req.signature, hmacSecret, payload)
    /\ LET parsed == JSONParse(payload)
           subgraphs == changedSubgraphs(parsed.event.baseSchema.subgraphs,
                                         parsed.event.proposedSchema.subgraphs)
       IN  IF parsed.thrown # "none"
               THEN /\ thrown' = parsed.thrown
                    /\ pc' = "done"
                    /\ UNCHANGED <<event, changed, resolverCalls>>
               ELSE /\ event' = parsed.event
                    /\ changed' = subgraphs
                    /\ resolverCalls' =
                           Append(resolverCalls, DocsVariables(parsed.event, subgraphs))
                    /\ pc' = "awaitDocs"
                    /\ UNCHANGED thrown
    /\ UNCHANGED <<otherVars, messages,
                   handler, hmacSecret, req, payload, githubCalls, docsFetch, docsResult,
                   violationResults, callbacks, callbackResult, response>>

\* customLint after `await apolloClient.query(...).catch(...)`: evaluate every
\* changed subgraph, flatten, send the callback mutation.
EvaluateAndReport(outcome, docs) ==
    LET mapped == MapEvaluate(changed, docs)
        flat == Flat(mapped.results)
    IN  /\ docsFetch' = outcome
        /\ docsResult' = docs
        /\ IF mapped.thrown # "none"
               THEN /\ thrown' = mapped.thrown
                    /\ pc' = "done"
                    /\ UNCHANGED <<violationResults, callbacks>>
               ELSE /\ violationResults' = flat
                    /\ callbacks' = Append(callbacks, CallbackVariables(event, flat))
                    /\ pc' = "awaitCallback"
                    /\ UNCHANGED thrown
        /\ UNCHANGED <<otherVars, messages,
                       handler, hmacSecret, req, payload, event, changed, resolverCalls,
                       githubCalls, callbackResult, response>>

\* customLint: the docs query resolves
DocsResolved ==
    /\ handler = "customLint"
    /\ pc = "awaitDocs"
    /\ \E docs \in ResolverResponses(resolverCalls[Len(resolverCalls)].hashes) :
           EvaluateAndReport("resolved", docs)

\* customLint: the docs query rejects: .catch((err) => ({ data: { graph: null } }))
DocsRejected ==
    /\ handler = "customLint"
    /\ pc = "awaitDocs"
    /\ EvaluateAndReport("rejected", GraphNull)

\* lint, the signature matches: parse the event, send the Doc query
LintQuery ==
    /\ handler = "lint"
    /\ pc = "read"
    /\ isAuthorized(req.signature, hmacSecret, payload)
    /\ LET parsed == JSONParse(payload)
       IN  IF parsed.thrown # "none"
               THEN /\ thrown' = parsed.thrown
                    /\ pc' = "done"
                    /\ UNCHANGED <<event, resolverCalls>>
               ELSE /\ event' = parsed.event
                    /\ resolverCalls' = Append(resolverCalls, DocVariables(parsed.event))
                    /\ pc' = "awaitDocs"
                    /\ UNCHANGED thrown
    /\ UNCHANGED <<otherVars, messages,
                   handler, hmacSecret, req, payload, changed, githubCalls, docsFetch,
                   docsResult, violationResults, callbacks, callbackResult, response>>

\* lint: the Doc query resolves; docResult.data.graph.doc.source is linted
\* and the messages are sent with the callback mutation
LintDocResolved ==
    /\ handler = "lint"
    /\ pc = "awaitDocs"
    /\ \E docs \in DocResponses(event.proposedSchema.hash), report \in LintReports :
           LET code == SourceOf(docs, event.proposedSchema.hash)
               violations == MapLintViolation(report)
           IN  /\ docsFetch' = "resolved"
               /\ docsResult' = docs
               /\ IF docs.graphNull \/ docs.docsNull \/ ~code.isString
                      THEN /\ thrown' = "TypeError"
                           /\ pc' = "done"
                           /\ UNCHANGED <<messages, violationResults, callbacks>>
                      ELSE /\ messages' = report
                           /\ violationResults' = violations
                           /\ callbacks' =
                                  Append(callbacks, LintCallbackVariables(event, violations))
                           /\ pc' = "awaitCallback"
                           /\ UNCHANGED thrown
    /\ UNCHANGED <<otherVars,
                   handler, hmacSecret, req, payload, event, changed, resolverCalls,
                   githubCalls, callbackResult, response>>

\* lint: the Doc query rejects; nothing catches it
LintDocRejected ==
    /\ handler = "lint"
    /\ pc = "awaitDocs"
    /\ docsFetch' = "rejected"
    /\ thrown' = "ApolloError"
    /\ pc' = "done"
    /\ UNCHANGED <<otherVars, messages,
                   handler, hmacSecret, req, payload, event, changed, resolverCalls,
                   githubCalls, docsResult, violationResults, callbacks, callbackResult,
                   response>>

\* pullRequestCheck, the signature matches: parse the event, query GitHub
PullRequestQuery ==
    /\ handler = "pullRequestCheck"
    /\ pc = "read"
    /\ isAuthorized(req.signature, hmacSecret, payload)
    /\ LET parsed == JSONParse(payload)
       IN  IF parsed.thrown # "none"
               THEN /\ thrown' = parsed.thrown
                    /\ pc' = "done"
                    /\ UNCHANGED <<event, githubCalls>>
               ELSE /\ event' = parsed.event
                    /\ githubCalls' =
                           Append(githubCalls, [branch |-> parsed.event.checkStep.branch])
                    /\ pc' = "awaitGithub"
                    /\ UNCHANGED thrown
    /\ UNCHANGED <<otherVars, messages,
                   handler, hmacSecret, req, payload, changed, resolverCalls, docsFetch,
                   docsResult, violationResults, callbacks, callbackResult, response>>

\* pullRequestCheck: the GitHub query resolves; send the callback mutation
PullRequestResolved ==
    /\ handler = "pullRequestCheck"
    /\ pc = "awaitGithub"
    /\ \E totalCount \in TotalCounts :
           callbacks' = Append(callbacks, PullRequestCallbackVariables(event, totalCount))
    /\ pc' = "awaitCallback"
    /\ UNCHANGED <<otherVars, messages,
                   handler, hmacSecret, req, payload, event, changed, resolverCalls,
                   githubCalls, docsFetch, docsResult, violationResults, callbackResult,
                   response, thrown>>

\* pullRequestCheck: the GitHub query rejects; nothing catches it
PullRequestRejected ==
    /\ handler = "pullRequestCheck"
    /\ pc = "awaitGithub"
    /\ thrown' = "ApolloError"
    /\ pc' = "done"
    /\ UNCHANGED <<otherVars, messages,
                   handler, hmacSecret, req, payload, event, changed, resolverCalls,
                   githubCalls, docsFetch, docsResult, violationResults, callbacks,
                   callbackResult, response>>

\* the callback mutation resolves, with a result or a typed error:
\* return new Response('OK', { status: 200 })
CallbackResolved ==
    /\ pc = "awaitCallback"
    /\ \E r \in CallbackOutcomes : MutateResolves(handler, r) /\ callbackResult' = r
    /\ response' = HandlerResponse(TRUE)
    /\ pc' = "done"
    /\ UNCHANGED <<otherVars, messages,
                   handler, hmacSecret, req, payload, event, changed, resolverCalls,
                   githubCalls, docsFetch, docsResult, violationResults, callbacks, thrown>>

\* the callback mutation rejects; nothing catches it
CallbackRejected ==
    /\ pc = "awaitCallback"
    /\ \E r \in CallbackOutcomes : ~MutateResolves(handler, r) /\ callbackResult' = r
    /\ thrown' = "ApolloError"
    /\ pc' = "done"
    /\ UNCHANGED <<otherVars, messages,
                   handler, hmacSecret, req, payload, event, changed, resolverCalls,
                   githubCalls, docsFetch, docsResult, violationResults, callbacks, response>>

Next ==
    \/ ReadBody
    \/ RejectSignature
    \/ DiffAndQuery
    \/ DocsResolved
    \/ DocsRejected
    \/ LintQuery
    \/ LintDocResolved
    \/ LintDocRejected
    \/ PullRequestQuery
    \/ PullRequestResolved
    \/ PullRequestRejected
    \/ CallbackResolved
    \/ CallbackRejected

Spec == Init /\ [][Next]_vars

(***************************************************************************)
(* The subgraph filter on its own: SpecDiff gives changedSubgraphs a base   *)
(* and a proposed list and applies it, then applies it to its own result.  *)
(***************************************************************************)
\* the subgraph entries the lists are made of: three names, one of them with
\* two hashes
DiffRefs ==
    {[name |-> "a", hash |-> "h1"], [name |-> "a", hash |-> "h2"],
     [name |-> "b", hash |-> "h2"], [name |-> "b", hash |-> "h3"],
     [name |-> "c", hash |-> "h4"]}

DiffLists(n) ==
    {[absent |-> TRUE, items |-> <<>>]}
        \cup {[absent |-> FALSE, items |-> s] : s \in SeqsUpTo(DiffRefs, n)}

DiffInit ==
    /\ diffBase \in DiffLists(MaxBase)
    /\ diffProposed \in DiffLists(MaxProposed)
    /\ diffResult = Pending
    /\ diffAgain = Pending
    /\ RequestIdle
    /\ MapperIdle
    /\ ProcessIdle
    /\ RuleIdle
    /\ ProposalIdle

\* const changedSubgraphs = (event.proposedSchema.subgraphs ?? []).filter(...)
ApplyDiff ==
    /\ diffResult = Pending
    /\ diffResult' = Computed(changedSubgraphs(diffBase, diffProposed))
    /\ UNCHANGED <<requestVars, mapperVars, processVars, ruleVars, proposalVars,
                 diffBase, diffProposed, diffAgain>>

\* the same filter, with the same base, on the list it returned
ApplyDiffAgain ==
    /\ ~diffResult.pending
    /\ diffAgain = Pending
    /\ diffAgain' =
           Computed(changedSubgraphs(diffBase, [absent |-> FALSE, items |-> diffResult.value]))
    /\ UNCHANGED <<requestVars, mapperVars, processVars, ruleVars, proposalVars,
                 diffBase, diffProposed, diffResult>>

DiffNext ==
    \/ ApplyDiff
    \/ ApplyDiffAgain

SpecDiff == DiffInit /\ [][DiffNext]_vars

(***************************************************************************)
(* The source location mapper on its own: SpecMapper gives                 *)
(* getSourceLocationCoordinate a text and a 1-based line and column.       *)
(***************************************************************************)
\* the characters of a source text: a character and the line separator
TextChars == {"x", NL}

SourceTexts == SeqsUpTo(TextChars, MaxText)

MapperInit ==
    /\ srcText \in SourceTexts
    /\ srcLine \in 1..(MaxText + 1)
    /\ srcColumn \in 1..(MaxText + 1)
    /\ coordinate = Pending
    /\ RequestIdle
    /\ DiffIdle
    /\ ProcessIdle
    /\ RuleIdle
    /\ ProposalIdle

\* getSourceLocationCoordinate(code, line, column)
ApplyMapper ==
    /\ coordinate = Pending
    /\ coordinate' = Computed(getSourceLocationCoordinate(srcText, srcLine, srcColumn))
    /\ UNCHANGED <<requestVars, diffVars, processVars, ruleVars, proposalVars,
                 srcText, srcLine, srcColumn>>

MapperNext == ApplyMapper

SpecMapper == MapperInit /\ [][MapperNext]_vars

(***************************************************************************)
(* The contact directive rule on its own: SpecRule gives the callback of   *)
(* changedSubgraphs.map one changed subgraph and the answer of the docs    *)
(* query, over documents with one schema block, several, or none.          *)
(***************************************************************************)
RuleDocOutcomes == DocOutcomes \cup BlockSourceIds

\* what the resolver answers to hashes: [supergraph, another hash, the hash of
\* the subgraph]
RuleResponses(subgraph) ==
    {GraphNull, DocsNull}
        \cup {DocsList(BuildDocs(<<SupergraphHash, other, subgraph.hash>>,
                                 [h \in {SupergraphHash, other, subgraph.hash} |->
                                     IF h = SupergraphHash THEN "sdlNoContact"
                                     ELSE IF h = other THEN otherOutcome
                                     ELSE outcome])) :
                other \in Hashes \ {subgraph.hash},
                otherOutcome \in {"missing", "sdlOk"},
                outcome \in RuleDocOutcomes}

RuleInit ==
    /\ \E subgraph \in SubgraphRefs :
           \E docs \in RuleResponses(subgraph) :
               rule = [subgraph |-> subgraph, docsResult |-> docs, result |-> Pending]
    /\ RequestIdle
    /\ DiffIdle
    /\ MapperIdle
    /\ ProcessIdle
    /\ ProposalIdle

\* (subgraph) => { ... } of changedSubgraphs.map
ApplyRule ==
    /\ rule.result = Pending
    /\ rule' = [rule EXCEPT !.result =
                    Computed(EvaluateSubgraph(rule.subgraph, rule.docsResult))]
    /\ UNCHANGED <<requestVars, diffVars, mapperVars, processVars, proposalVars>>

RuleNext == ApplyRule

SpecRule == RuleInit /\ [][RuleNext]_vars

(***************************************************************************)
(* One process, several requests: SpecProcess runs customLint for          *)
(* MaxRequests authorized requests at the same time.  The module-level     *)
(* apolloClient and its InMemoryCache are created once per process; query  *)
(* is called without a fetchPolicy, so it reads the cache first and asks   *)
(* the network only when the cache has no result for the same variables.   *)
(***************************************************************************)
Requests == 1..MaxRequests

\* the events of the concurrent requests: no base list, at most one proposed
\* subgraph
ProcessEvents ==
    {e \in Events : e.baseSchema.subgraphs.absent /\ Len(e.proposedSchema.subgraphs.items) <= 1}

NoCacheEntry == [found |-> FALSE, data |-> GraphNull, writer |-> 0]

\* cache.read for the SourceCode query with these variables
CacheRead(entries, variables) ==
    IF \E c \in entries : c.variables = variables
        THEN LET c == CHOOSE c \in entries : c.variables = variables
             IN  [found |-> TRUE, data |-> c.data, writer |-> c.writer]
    ELSE NoCacheEntry

\* cache.write of a query result: it replaces the result stored for the
\* same variables
CacheWrite(entries, variables, data, writer) ==
    {c \in entries : c.variables # variables}
        \cup {[variables |-> variables, data |-> data, writer |-> writer]}

NewRequest(e) ==
    [pc |-> "start", body |-> Serialize(e), event |-> NoEvent, changed |-> <<>>,
     variables |-> DocsVariables(NoEvent, <<>>), hit |-> NoCacheEntry,
     servedBy |-> "none", docsResult |-> GraphNull, violationResults |-> <<>>,
     callbacks |-> <<>>, response |-> NoResponse, thrown |-> "none"]

ProcessInit ==
    /\ cache = {}
    /\ requests \in [Requests -> {NewRequest(e) : e \in ProcessEvents}]
    /\ RequestIdle
    /\ DiffIdle
    /\ MapperIdle
    /\ RuleIdle
    /\ ProposalIdle

\* request r, signature accepted: parse the event, diff the subgraphs, call
\* apolloClient.query, which looks the variables up in the cache
ProcessQuery(r) ==
    /\ requests[r].pc = "start"
    /\ LET parsed == JSONParse(ReadPayload(requests[r].body))
           subgraphs == changedSubgraphs(parsed.event.baseSchema.subgraphs,
                                         parsed.event.proposedSchema.subgraphs)
           variables == DocsVariables(parsed.event, subgraphs)
       IN  requests' =
               [requests EXCEPT ![r] =
                   [@ EXCEPT !.pc = "awaitDocs", !.event = parsed.event,
                             !.changed = subgraphs, !.variables = variables,
                             !.hit = CacheRead(cache, variables)]]
    /\ UNCHANGED <<requestVars, diffVars, mapperVars, ruleVars, proposalVars, cache>>

\* the rest of customLint once request r has its documents: evaluate the
\* changed subgraphs, flatten, send the callback mutation
ProcessEvaluate(r, servedBy, docs) ==
    LET mapped == MapEvaluate(requests[r].changed, docs)
        flat == Flat(mapped.results)
    IN  requests' =
            [requests EXCEPT ![r] =
                IF mapped.thrown # "none"
                    THEN [@ EXCEPT !.pc = "done", !.servedBy = servedBy,
                                   !.docsResult = docs, !.thrown = mapped.thrown]
                ELSE [@ EXCEPT !.pc = "awaitCallback", !.servedBy = servedBy,
                               !.docsResult = docs, !.violationResults = flat,
                               !.callbacks =
                                   Append(@, CallbackVariables(requests[r].event, flat))]]

\* the query of request r resolves with the result the cache held
ProcessCacheResolved(r) ==
    /\ requests[r].pc = "awaitDocs"
    /\ requests[r].hit.found
    /\ ProcessEvaluate(r, "cache", requests[r].hit.data)
    /\ UNCHANGED <<requestVars, diffVars, mapperVars, ruleVars, proposalVars, cache>>

\* the query of request r resolves with the answer of the network, which is
\* written to the cache
ProcessNetworkResolved(r) ==
    /\ requests[r].pc = "awaitDocs"
    /\ ~requests[r].hit.found
    /\ \E docs \in ResolverResponses(requests[r].variables.hashes) :
           /\ cache' = CacheWrite(cache, requests[r].variables, docs, r)
           /\ ProcessEvaluate(r, "network", docs)
    /\ UNCHANGED <<requestVars, diffVars, mapperVars, ruleVars, proposalVars>>

\* the query of request r rejects: .catch((err) => ({ data: { graph: null } }))
ProcessNetworkRejected(r) ==
    /\ requests[r].pc = "awaitDocs"
    /\ ~requests[r].hit.found
    /\ ProcessEvaluate(r, "rejected", GraphNull)
    /\ UNCHANGED <<requestVars, diffVars, mapperVars, ruleVars, proposalVars, cache>>

\* the callback mutation of request r resolves: return new Response('OK', ...)
ProcessCallbackResolved(r) ==
    /\ requests[r].pc = "awaitCallback"
    /\ requests' =
           [requests EXCEPT ![r] = [@ EXCEPT !.pc = "done", !.response = HandlerResponse(TRUE)]]
    /\ UNCHANGED <<requestVars, diffVars, mapperVars, ruleVars, proposalVars, cache>>

\* the callback mutation of request r rejects; nothing catches it
ProcessCallbackRejected(r) ==
    /\ requests[r].pc = "awaitCallback"
    /\ requests' = [requests EXCEPT ![r] = [@ EXCEPT !.pc = "done", !.thrown = "ApolloError"]]
    /\ UNCHANGED <<requestVars, diffVars, mapperVars, ruleVars, proposalVars, cache>>

ProcessNext ==
    \E r \in Requests :
        \/ ProcessQuery(r)
        \/ ProcessCacheResolved(r)
        \/ ProcessNetworkResolved(r)
        \/ ProcessNetworkRejected(r)
        \/ ProcessCallbackResolved(r)
        \/ ProcessCallbackRejected(r)

SpecProcess == ProcessInit /\ [][ProcessNext]_vars

(***************************************************************************)
(* Properties                                                              *)
(***************************************************************************)
\* The signature the handler computes for this request.
ComputedSignature == CalculatedSignature(hmacSecret, ReadPayload(req.body))

SignatureMatches == req.signature = ComputedSignature

Forbidden == Response("Signature is invalid", 403)

\* C1: a request whose x-apollo-signature header differs from the computed
\* signature (an absent header included) is answered 403 "Signature is
\* invalid" and nothing else happens: no docs query, no callback.
C1_RejectedWithoutWork ==
    (pc # "start" /\ ~SignatureMatches) =>
        /\ pc \in {"read", "done"}
        /\ resolverCalls = <<>>
        /\ githubCalls = <<>>
        /\ callbacks = <<>>
        /\ thrown = "none"
        /\ pc = "done" => response = Forbidden

C1_Witness ==
    /\ handler = "customLint"
    /\ pc = "done"
    /\ ~req.signature.present
    /\ response = Forbidden

\* C2: the signature check accepts exactly the header
\* "sha256=" + hex(HMAC_SHA256(S, B)) for the raw body B as received, the
\* empty body included; the signed message is never a substitute of B.
C2_RawBodyIsSigned ==
    pc = "done" =>
        /\ payload = req.body
        /\ (response = Forbidden) <=> (req.signature # CalculatedSignature(hmacSecret, req.body))

\* C3: the reported status is FAILURE if and only if at least one violation
\* of the reported list has level ERROR; a list produced only from skipped
\* subgraphs yields SUCCESS.
C3_FailureIffError ==
    handler \in {"customLint", "lint"} =>
        \A i \in 1..Len(callbacks) :
            (callbacks[i].input.status = "FAILURE")
                <=> (\E k \in 1..Len(callbacks[i].input.violations) :
                         callbacks[i].input.violations[k].level = "ERROR")

\* customLint has parsed the event and computed changedSubgraphs
EventParsed ==
    /\ handler = "customLint"
    /\ pc \in {"awaitDocs", "awaitCallback"} \/ (pc = "done" /\ resolverCalls # <<>>)

BaseItems == event.baseSchema.subgraphs.items

ProposedItems == event.proposedSchema.subgraphs.items

\* C4 as claimed: a proposed subgraph is in the result if and only if no
\* entry of base.subgraphs has both its name and its hash, for every base
\* list, one with several entries of the same name included.
C4_NoEntryWithNameAndHash ==
    EventParsed =>
        Range(changed) =
            {p \in Range(ProposedItems) :
                ~\E b \in Range(BaseItems) : b.name = p.name /\ b.hash = p.hash}

\* C4 as amended: a proposed subgraph is in the result if and only if base
\* holds no entry of its name or the first base entry of its name has another
\* hash; when the names of base are distinct this is the claimed condition.
C4_FirstEntryOfName ==
    EventParsed =>
        /\ Range(changed) =
               {p \in Range(ProposedItems) :
                   \/ ~\E i \in 1..Len(BaseItems) : BaseItems[i].name = p.name
                   \/ \E i \in 1..Len(BaseItems) :
                          /\ BaseItems[i].name = p.name
                          /\ \A j \in 1..(i - 1) : BaseItems[j].name # p.name
                          /\ BaseItems[i].hash # p.hash}
        /\ (\A i, j \in 1..Len(BaseItems) : BaseItems[i].name = BaseItems[j].name => i = j)
               => Range(changed) =
                      {p \in Range(ProposedItems) :
                          ~\E b \in Range(BaseItems) : b.name = p.name /\ b.hash = p.hash}

\* base holds two entries of one name, the proposed subgraph equals the
\* second one and is reported as changed; a subgraph new in proposed is
\* reported along with it.
C4_Witness ==
    /\ pc = "awaitDocs"
    /\ Len(BaseItems) = 2
    /\ BaseItems[1].name = BaseItems[2].name
    /\ BaseItems[1].hash # BaseItems[2].hash
    /\ ProposedItems = <<BaseItems[2]>>
    /\ changed = ProposedItems

\* customLint has the answer of the docs query, or its rejection
DocsAnswered == handler = "customLint" /\ docsFetch # "none"

Reported(i) == callbacks[i].input.violations

\* C5: when the docs query itself fails, the fetch result is taken as empty,
\* every changed subgraph is skipped and the callback is still sent, with
\* status SUCCESS and zero violations, however many subgraphs changed.
C5_ResolverFailureReportsSuccess ==
    (handler = "customLint" /\ docsFetch = "rejected") =>
        /\ docsResult = GraphNull
        /\ Len(callbacks) = 1
        /\ callbacks[1].input.status = "SUCCESS"
        /\ Reported(1) = <<>>

\* the changed subgraph at position i has a source that graphql cannot parse
ThrowsAt(i) ==
    /\ SourceOf(docsResult, changed[i].hash).isString
    /\ parse(SourceOf(docsResult, changed[i].hash).id).thrown # "none"

\* C6: when parsing or rule evaluation throws for one changed subgraph, the
\* failure stays with that subgraph: the callback is still sent and it
\* carries the violations of every other changed subgraph.
C6_EvaluationFailureContained ==
    (DocsAnswered /\ \E i \in 1..Len(changed) : ThrowsAt(i)) =>
        /\ thrown = "none"
        /\ Len(callbacks) = 1
        /\ \A j \in 1..Len(changed) :
               ~ThrowsAt(j) =>
                   Range(EvaluateSubgraph(changed[j], docsResult).items)
                       \subseteq Range(Reported(1))

\* C7: a changed subgraph whose hash has no resolved source is skipped
\* without crashing the handler and adds no element, neither a violation nor
\* a null placeholder, to the violations sent in the callback.
C7_SkippedAddsNothing ==
    DocsAnswered =>
        /\ thrown \in {"none", "GraphQLError", "ApolloError"}
        /\ \A i \in 1..Len(callbacks) :
               /\ \A k \in 1..Len(Reported(i)) : ~Reported(i)[k].isNull
               /\ (\A j \in 1..Len(changed) :
                       ~SourceOf(docsResult, changed[j].hash).isString)
                      => Reported(i) = <<>>

C9_CallbackExactlyOnce ==
    /\ handler = "customLint" => Len(callbacks) <= 1
    /\ (pc = "done" /\ EventParsed) =>
           /\ Len(callbacks) = 1
           /\ callbacks[1].graphId = event.checkStep.graphId
           /\ callbacks[1].name = event.checkStep.graphVariant
           /\ callbacks[1].input.taskId = event.checkStep.taskId
           /\ callbacks[1].input.workflowId = event.checkStep.workflowId
           /\ callbacks[1].input.violations = violationResults
           /\ callbacks[1].input.status \in {"SUCCESS", "FAILURE"}

\* C10: when the callback call errors or returns a typed error, the callback
\* is not sent again and the failure is not surfaced to the HTTP caller: the
\* request still ends with 200 "OK".
C10_CallbackFailureNotSurfaced ==
    (handler = "customLint" /\ pc = "done"
        /\ callbackResult \notin {"none", "CustomCheckResult"}) =>
        /\ Len(callbacks) = 1
        /\ thrown = "none"
        /\ response = Response("OK", 200)

\* s holds the elements of r at increasing positions
IsSubsequence(r, s) ==
    \E f \in [1..Len(r) -> 1..Len(s)] :
        /\ \A i \in 1..Len(r) : s[f[i]] = r[i]
        /\ \A i, j \in 1..Len(r) : i < j => f[i] < f[j]

ExampleBase ==
    [absent |-> FALSE,
     items |-> <<[name |-> "a", hash |-> "h1"], [name |-> "b", hash |-> "h2"]>>]

ExampleProposed ==
    [absent |-> FALSE,
     items |-> <<[name |-> "a", hash |-> "h1"], [name |-> "b", hash |-> "h3"],
                 [name |-> "c", hash |-> "h4"]>>]

\* C11: the result of changedSubgraphs is a subsequence of proposed.subgraphs
\* in the same relative order; applied again with the same base to its own
\* result it returns that result unchanged; for base [{a,h1},{b,h2}] and
\* proposed [{a,h1},{b,h3},{c,h4}] the result is exactly [{b,h3},{c,h4}].
C11_OrderPreservingIdempotent ==
    /\ ~diffResult.pending =>
           /\ IsSubsequence(diffResult.value, diffProposed.items)
           /\ (diffBase = ExampleBase /\ diffProposed = ExampleProposed) =>
                  diffResult.value =
                      <<[name |-> "b", hash |-> "h3"], [name |-> "c", hash |-> "h4"]>>
    /\ ~diffAgain.pending => diffAgain = diffResult

\* the example of the claim, filtered twice
C11_Witness ==
    /\ diffBase = ExampleBase
    /\ diffProposed = ExampleProposed
    /\ Len(diffResult.value) = 2
    /\ diffAgain = diffResult

\* the request carried the signature the handler computes and a body that
\* parses to a check event
AuthorizedEvent ==
    /\ pc \notin {"start", "read"}
    /\ SignatureMatches
    /\ JSONParse(payload).thrown = "none"

\* C12: an absent or null subgraph list behaves like an empty list and is
\* never an error: with proposed.subgraphs absent or empty the result is
\* empty, and with base.subgraphs absent or empty and proposed.subgraphs not
\* empty every proposed subgraph is in the result.
C12_AbsentListIsEmpty ==
    /\ (handler = "customLint" /\ AuthorizedEvent) => EventParsed
    /\ EventParsed =>
           /\ (event.proposedSchema.subgraphs.absent \/ ProposedItems = <<>>) =>
                  changed = <<>>
           /\ ((event.baseSchema.subgraphs.absent \/ BaseItems = <<>>)
                   /\ ProposedItems # <<>>) =>
                  changed = ProposedItems

\* base.subgraphs is absent and both proposed subgraphs are reported
C12_Witness ==
    /\ EventParsed
    /\ event.baseSchema.subgraphs.absent
    /\ Len(ProposedItems) = 2
    /\ changed = ProposedItems

\* C13: within one authorized request the docs query is sent exactly once,
\* after the signature check has passed and before any rule is evaluated,
\* with the proposed supergraph hash followed by the hash of every changed
\* subgraph; there is no query per subgraph.
C13_OneBatchedResolverCall ==
    handler = "customLint" =>
        /\ Len(resolverCalls) <= 1
        /\ resolverCalls # <<>> => SignatureMatches
        /\ AuthorizedEvent =>
               /\ Len(resolverCalls) = 1
               /\ resolverCalls[1].graphId = event.checkStep.graphId
               /\ resolverCalls[1].hashes =
                      [i \in 1..(Len(changed) + 1) |->
                          IF i = 1 THEN event.proposedSchema.hash ELSE changed[i - 1].hash]
        /\ (docsFetch # "none" \/ violationResults # <<>> \/ callbacks # <<>>) =>
               Len(resolverCalls) = 1

\* two subgraphs changed, their rules were evaluated and the callback sent
\* after one query for three hashes
C13_Witness ==
    /\ handler = "customLint"
    /\ pc = "awaitCallback"
    /\ Len(changed) = 2
    /\ Len(resolverCalls) = 1
    /\ Len(resolverCalls[1].hashes) = 3
    /\ violationResults # <<>>

\* the only changed subgraph of the event, once the docs query was answered
\* with a source text for it that graphql parses
OneChangedParsed ==
    /\ DocsAnswered
    /\ Len(changed) = 1
    /\ SourceOf(docsResult, changed[1].hash).isString
    /\ parse(SourceOf(docsResult, changed[1].hash).id).thrown = "none"

\* the definitions of that subgraph's document
ChangedDefinitions == parse(SourceOf(docsResult, changed[1].hash).id).definitions

\* the directives named contact on the schema blocks of that document
ContactDirectives ==
    {ChangedDefinitions[i].directives[k] :
        <<i, k>> \in {p \in (1..Len(ChangedDefinitions)) \X (1..2) :
                         /\ ChangedDefinitions[p[1]].kind
                                \in {"SchemaDefinition", "SchemaExtension"}
                         /\ p[2] <= Len(ChangedDefinitions[p[1]].directives)
                         /\ ChangedDefinitions[p[1]].directives[p[2]].name = "contact"}}

ContactArguments == (CHOOSE d \in ContactDirectives : TRUE).arguments

\* some argument of the contact directive has an empty name or an empty value
SomeValueEmpty ==
    \E i \in 1..Len(ContactArguments) :
        ContactArguments[i].field = "" \/ ContactArguments[i].value = ""

\* the argument names are a superset of {name, url, description}
NamesComplete ==
    {"name", "url", "description"}
        \subseteq {ContactArguments[i].field : i \in 1..Len(ContactArguments)}

ReportedMessages == {Reported(1)[k].message : k \in 1..Len(Reported(1))}

\* C15: when the contact directive exists the rule checks two conditions
\* independently and emits zero to two violations: "Contact directive values
\* are not all present" exactly when some argument has an empty name or an
\* empty value, "Contact directive must have a name, url, and description"
\* exactly when the argument names are not a superset of {name, url,
\* description}; name, url: "", description gives exactly one violation and a
\* directive with the three arguments filled gives none.
C15_TwoIndependentConditions ==
    (OneChangedParsed /\ ContactDirectives # {}) =>
        /\ Len(callbacks) = 1
        /\ \A k \in 1..Len(Reported(1)) : ~Reported(1)[k].isNull
        /\ ReportedMessages =
               (IF SomeValueEmpty
                    THEN {"Contact directive values are not all present"} ELSE {})
               \cup
               (IF NamesComplete
                    THEN {} ELSE {"Contact directive must have a name, url, and description"})
        /\ Len(Reported(1)) = Cardinality(ReportedMessages)
        /\ SourceOf(docsResult, changed[1].hash).id = "sdlEmptyUrl" =>
               /\ Len(Reported(1)) = 1
               /\ Reported(1)[1].level = "ERROR"
        /\ SourceOf(docsResult, changed[1].hash).id = "sdlOk" => Reported(1) = <<>>

\* a contact directive without description and with an empty url: both
\* violations are reported
C15_Witness ==
    /\ OneChangedParsed
    /\ ContactDirectives # {}
    /\ SomeValueEmpty
    /\ ~NamesComplete
    /\ Len(callbacks) = 1
    /\ Len(Reported(1)) = 2

\* the lines of the text given to the mapper
SrcLines == Split(srcText)

\* the position is inside the text: the line exists and the column is one of
\* its characters, or column 1 when the line is empty
InsideText ==
    /\ srcLine <= Len(SrcLines)
    /\ srcColumn <= Len(SrcLines[srcLine]) \/ srcColumn = 1

\* the characters of the first n lines, their separators included
RECURSIVE LengthOfLines(_, _)
LengthOfLines(lines, n) ==
    IF n = 0 THEN 0 ELSE Len(lines[n]) + 1 + LengthOfLines(lines, n - 1)

\* the number of characters that precede (line, column) in the text
Preceding == LengthOfLines(SrcLines, srcLine - 1) + (srcColumn - 1)

\* C16: for every source text and every 1-based position inside it the
\* byteOffset is the number of bytes that precede the position, so the text
\* cut at byteOffset is the text up to (line, column); also for column 1 of
\* an empty line and for line 1, and byteOffset is never negative.
C16_OffsetIsPrecedingLength ==
    (~coordinate.pending /\ InsideText) =>
        /\ coordinate.value.byteOffset = Preceding
        /\ coordinate.value.byteOffset >= 0
        /\ SubSeq(srcText, 1, coordinate.value.byteOffset) = SubSeq(srcText, 1, Preceding)

\* C17 as claimed: byteOffset is the length of lines 1 to line-1 in full and
\* the first column-1 characters of line `line`, joined with the separators,
\* minus one; line and column are returned unchanged.
C17_FirstColumnMinusOne ==
    (~coordinate.pending /\ srcLine <= Len(SrcLines)) =>
        /\ coordinate.value.byteOffset =
               LengthOfLines(SrcLines, srcLine - 1)
                   + Min(srcColumn - 1, Len(SrcLines[srcLine])) - 1
        /\ coordinate.value.line = srcLine
        /\ coordinate.value.column = srcColumn

\* C17 as amended: byteOffset is the length of lines 1 to line-1 in full and
\* the first column characters of line `line` (the whole line when it is
\* shorter), joined with the separators, minus one; line and column are
\* returned unchanged.
C17_FirstColumnCharacters ==
    (~coordinate.pending /\ srcLine <= Len(SrcLines)) =>
        /\ coordinate.value.byteOffset =
               LengthOfLines(SrcLines, srcLine - 1)
                   + Min(srcColumn, Len(SrcLines[srcLine])) - 1
        /\ coordinate.value.line = srcLine
        /\ coordinate.value.column = srcColumn

\* line 2, column 2 of a text whose second line has two characters: three
\* characters precede it
C17_Witness ==
    /\ srcText = <<"x", NL, "x", "x">>
    /\ srcLine = 2
    /\ srcColumn = 2
    /\ ~coordinate.pending
    /\ coordinate.value = [line |-> 2, column |-> 2, byteOffset |-> 3]

\* the lint handler has linted the document and sent the callback
Linted == handler = "lint" /\ callbacks # <<>>

\* C18: each lint finding becomes one violation whose level is ERROR if the
\* finding's severity is the linter's highest severity, "error", and WARNING
\* otherwise, so the status is FAILURE whenever the linter returns a finding
\* of that severity.
C18_LevelFollowsSeverity ==
    Linted =>
        /\ Len(Reported(1)) = Len(messages)
        /\ \A k \in 1..Len(messages) :
               Reported(1)[k].level
                   = (IF messages[k].severity = "error" THEN "ERROR" ELSE "WARNING")
        /\ (\E k \in 1..Len(messages) : messages[k].severity = "error") =>
               callbacks[1].input.status = "FAILURE"

\* the text the lint handler linted
LintedText == SourceText(SourceOf(docsResult, event.proposedSchema.hash).id)

\* C19: every violation of the lint handler carries exactly one source
\* location, naming the evaluated subgraph, whose start (byteOffset
\* included) is what the Source Location Mapper computes from the finding's
\* line and column and whose end is computed the same way from endLine and
\* endColumn when both are present and equals start otherwise.
C19_LocationsFromMapper ==
    Linted =>
        \A k \in 1..Len(messages) :
            LET location == Reported(1)[k].sourceLocations
                start == getSourceLocationCoordinate(LintedText, messages[k].line,
                                                     messages[k].column)
                end == IF messages[k].hasEnd
                           THEN getSourceLocationCoordinate(LintedText, messages[k].endLine,
                                                            messages[k].endColumn)
                           ELSE start
            IN  /\ "subgraphName" \in DOMAIN location
                /\ location.start.defined
                /\ location.start.line = start.line
                /\ location.start.column = start.column
                /\ location.start.byteOffset = start.byteOffset
                /\ location.end.defined
                /\ location.end.line = end.line
                /\ location.end.column = end.column
                /\ location.end.byteOffset = end.byteOffset

\* C20: two requests handled concurrently by one process share no mutable
\* state: each one resolves its documents by its own query, as it does
\* alone, and no cache entry written while serving one request is read
\* while serving the other.
C20_NoSharedState ==
    \A r \in DOMAIN requests :
        /\ ~(requests[r].hit.found /\ requests[r].hit.writer # r)
        /\ requests[r].servedBy # "cache"
        /\ requests[r].callbacks # <<>> => requests[r].servedBy \in {"network", "rejected"}

(***************************************************************************)
(* Proposal reviewer assignment: applyReviewers of proposals.ts            *)
(***************************************************************************)
ProposalNotificationEvents == [variantId : {"v1", "v2"}, graphId : {"g1"}]

\* JSON.parse('{}'): every property of the event reads undefined
UndefinedEvent == [variantId |-> "undefined", graphId |-> "undefined"]

SerializeNotification(e) == <<"{", "graphId", e.graphId, "variantId", e.variantId, "}">>

NotificationBodies ==
    {SerializeNotification(e) : e \in ProposalNotificationEvents}
        \cup {EmptyBody, EmptyObjectBody, MalformedBody}

\* JSON.parse(payload) as ProposalNotificationEvent
ParseNotification(json) ==
    IF json = EmptyObjectBody THEN [thrown |-> "none", event |-> UndefinedEvent]
    ELSE IF /\ Len(json) = 6
            /\ json[1] = "{"
            /\ json[2] = "graphId"
            /\ json[4] = "variantId"
            /\ json[6] = "}"
        THEN [thrown |-> "none", event |-> [variantId |-> json[5], graphId |-> json[3]]]
    ELSE [thrown |-> "SyntaxError", event |-> UndefinedEvent]

\* launch.build.result of a launch: null while the build runs, then a
\* BuildSuccess with coreSchema.coreHash or another member of the union,
\* which the query's `... on BuildSuccess` fragment leaves without coreSchema
BuildNull == [kind |-> "null", coreHash |-> ""]

BuildFailure == [kind |-> "BuildFailure", coreHash |-> ""]

BuildSuccess(hash) == [kind |-> "BuildSuccess", coreHash |-> hash]

OldHashes == {"o1"}

NewHashes == {"n1"}

BuildResults(hashes) == {BuildNull, BuildFailure} \cup {BuildSuccess(h) : h \in hashes}

NoHashesResponse == [kind |-> "none", revision |-> BuildNull, source |-> BuildNull]

\* what apolloClient.query resolves to for schemaHashesQuery: data with the two
\* build results, or data with a null on the path to them
HashesData ==
    [kind : {"data"}, revision : BuildResults(NewHashes), source : BuildResults(OldHashes)]
        \cup {[kind |-> "pathNull", revision |-> BuildNull, source |-> BuildNull]}

\* The answers to the polls so far decide what the next one may be: a
\* revision whose build result is still null is answered at most
\* MaxPolls - 1 times, and variables that are undefined are refused.
HashesResolutions(p) ==
    IF p.event = UndefinedEvent THEN {}
    ELSE {r \in HashesData :
            (r.kind = "data" /\ r.revision = BuildNull)
                => Cardinality({i \in 1..Len(p.calls) : p.calls[i].kind = "hashes"})
                       < MaxPolls}

\* lines 140-159 of getSchemaHashes for an answer that is not retried: the
\* two assignments in their order, the first TypeError ending the try block
SchemaHashesOf(answer) ==
    IF answer.kind # "data" THEN <<"", "">>
    ELSE IF answer.source.kind # "BuildSuccess" THEN <<"", "">>
    ELSE IF answer.revision.kind # "BuildSuccess" THEN <<answer.source.coreHash, "">>
    ELSE <<answer.source.coreHash, answer.revision.coreHash>>

\* a diff item: a FlatDiffItemValue with its value, or another item type,
\* whose value reads undefined.  A value is a piece of SDL that may hold an
\* @owner(team: ["..."]) directive with the team between the quotes.
NoValueItem == [isValue |-> FALSE, owner |-> FALSE, team |-> <<>>]

PlainItem == [isValue |-> TRUE, owner |-> FALSE, team |-> <<>>]

OwnerItem(team) == [isValue |-> TRUE, owner |-> TRUE, team |-> team]

\* the teams of owner directives: two e-mail addresses, a team name without
\* an at sign, and the empty string
Teams ==
    {<<"j", ".", "d", "@", "LIBERTYMUTUAL.COM">>, <<"j", "@", "x.org">>, <<"t">>, <<>>}

DiffItems == {NoValueItem, PlainItem} \cup {OwnerItem(t) : t \in Teams}

NoEmail == <<>>

\* ownerDirectiveRegex.exec(item.value): /@owner\(team: \["([^"]+)"\]\)/
OwnerMatch(item) ==
    IF item.isValue /\ item.owner /\ item.team # <<>>
        THEN [matched |-> TRUE, team |-> item.team]
    ELSE [matched |-> FALSE, team |-> NoEmail]

\* for (const item of diff) { ... if (match) { email = match[1]; break; } }
RECURSIVE FirstOwner(_)
FirstOwner(diff) ==
    IF diff = <<>> THEN NoEmail
    ELSE IF OwnerMatch(Head(diff)).matched THEN OwnerMatch(Head(diff)).team
    ELSE FirstOwner(Tail(diff))

\* what apolloClient.query resolves to for schemaDiffQuery: the diff list, or
\* data without graph.flatDiff.diff
DiffData ==
    {[kind |-> "data", diff |-> d] : d \in SeqsUpTo(DiffItems, MaxDiffItems)}
        \cup {[kind |-> "pathNull", diff |-> <<>>]}

\* $oldSchemaHash and $newSchemaHash are SHA256! variables: a query with an
\* empty hash or an undefined graphId is refused
DiffResolutions(p) ==
    IF p.event = UndefinedEvent \/ "" \in Range(p.schemaHashes.value) THEN {}
    ELSE DiffData

\* getImpactedOwners: the e-mail of the first matching item, '' otherwise
ImpactedOwner(answer) ==
    IF answer.kind = "data" THEN FirstOwner(answer.diff) ELSE NoEmail

IsWordChar(c) == c \in {"j", "d", "t", "J", "D", "T"}

ToUpperCase(c) ==
    CASE c = "j" -> "J" [] c = "d" -> "D" [] c = "t" -> "T" [] OTHER -> c

ToLowerCase(c) ==
    CASE c = "LIBERTYMUTUAL.COM" -> "libertymutual.com"
      [] c = "J" -> "j" [] c = "D" -> "d" [] c = "T" -> "t"
      [] OTHER -> c

AtPositions(email) == {i \in 1..Len(email) : email[i] = "@"}

\* const [localPart, domainPart] = email.split('@')
SplitAt(email) ==
    IF AtPositions(email) = {}
        THEN [localPart |-> email, hasDomain |-> FALSE, domainPart |-> <<>>]
    ELSE LET first == CHOOSE i \in AtPositions(email) : \A j \in AtPositions(email) : i <= j
             later == {i \in AtPositions(email) : i > first}
             stop == IF later = {} THEN Len(email) + 1
                     ELSE CHOOSE i \in later : \A j \in later : i <= j
         IN  [localPart |-> SubSeq(email, 1, first - 1), hasDomain |-> TRUE,
              domainPart |-> SubSeq(email, first + 1, stop - 1)]

\* localPart.replace(/\b\w/g, (char) => char.toUpperCase())
CapitalizeLocal(localPart) ==
    [i \in 1..Len(localPart) |->
        IF IsWordChar(localPart[i]) /\ (i = 1 \/ ~IsWordChar(localPart[i - 1]))
            THEN ToUpperCase(localPart[i])
        ELSE localPart[i]]

\* domainPart.toLowerCase().replace('libertymutual.com', 'LibertyMutual.com')
CapitalizeDomain(domainPart) ==
    LET lower == [i \in 1..Len(domainPart) |-> ToLowerCase(domainPart[i])]
        hits == {i \in 1..Len(lower) : lower[i] = "libertymutual.com"}
    IN  [i \in 1..Len(lower) |->
            IF hits # {} /\ i = (CHOOSE h \in hits : \A k \in hits : h <= k)
                THEN "LibertyMutual.com"
            ELSE lower[i]]

\* capitalizeWords(email): domainPart is undefined when the e-mail has no at
\* sign, and domainPart.toLowerCase() throws a TypeError
capitalizeWords(email) ==
    LET parts == SplitAt(email)
    IN  IF ~parts.hasDomain THEN [thrown |-> "TypeError", value |-> <<>>]
        ELSE [thrown |-> "none",
              value |-> CapitalizeLocal(parts.localPart) \o <<"@">>
                            \o CapitalizeDomain(parts.domainPart)]

apolloUserPrefix == "po.liberty-mutual."

HashesCall(e) == [kind |-> "hashes", graphId |-> e.graphId, name |-> e.variantId,
                  hashes |-> <<>>, reviewerUserIdsToAdd |-> <<>>]

DiffCall(e, schemaHashes) ==
    [kind |-> "diff", graphId |-> e.graphId, name |-> "",
     hashes |-> schemaHashes, reviewerUserIdsToAdd |-> <<>>]

ReviewerCall(e, apolloUserId) ==
    [kind |-> "reviewer", graphId |-> e.graphId, name |-> e.variantId,
     hashes |-> <<>>, reviewerUserIdsToAdd |-> <<apolloUserId>>]

\* one run of applyReviewers before its first step
NewProposal(secret, r) ==
    [pc |-> "start", hmacSecret |-> secret, req |-> r, payload |-> <<>>,
     event |-> UndefinedEvent, calls |-> <<>>, hashesResponse |-> NoHashesResponse,
     schemaHashes |-> Pending, ownerEmail |-> Pending, reviewerResult |-> "none",
     thrown |-> "none"]

ProposalInit ==
    /\ \E secret \in Secrets, b \in NotificationBodies :
           \E h \in HeadersFor(secret, b) :
               proposal = NewProposal(secret, [body |-> b, signature |-> h])
    /\ RequestIdle
    /\ DiffIdle
    /\ MapperIdle
    /\ ProcessIdle
    /\ RuleIdle

\* const payload = (await req.text()) || '{}';
ProposalReadBody ==
    /\ proposal.pc = "start"
    /\ proposal' = [proposal EXCEPT !.pc = "read", !.payload = ReadPayload(proposal.req.body)]
    /\ UNCHANGED <<requestVars, diffVars, mapperVars, processVars, ruleVars>>

\* const shouldProceed = await isAuthorized(req, payload);
shouldProceed(p) == isAuthorized(p.req.signature, p.hmacSecret, p.payload)

\* a guard that lets every request through
ReturnsUnauthorizedNever(proceed) == FALSE

\* if (!shouldProceed) { console.error('Unauthorized request'); return; }
ReturnsUnauthorized(proceed) == ~proceed

ProposalReject ==
    /\ proposal.pc = "read"
    /\ ReturnsUnauthorized(shouldProceed(proposal))
    /\ proposal' = [proposal EXCEPT !.pc = "unauthorized"]
    /\ UNCHANGED <<requestVars, diffVars, mapperVars, processVars, ruleVars>>

\* JSON.parse(payload), then getSchemaHashes up to its await of the query
ProposalParseAndQuery ==
    /\ proposal.pc = "read"
    /\ ~ReturnsUnauthorized(shouldProceed(proposal))
    /\ LET parsed == ParseNotification(proposal.payload)
       IN  proposal' =
               IF parsed.thrown # "none"
                   THEN [proposal EXCEPT !.pc = "thrown", !.thrown = parsed.thrown]
               ELSE [proposal EXCEPT !.pc = "awaitHashes", !.event = parsed.event,
                                     !.calls = <<HashesCall(parsed.event)>>]
    /\ UNCHANGED <<requestVars, diffVars, mapperVars, processVars, ruleVars>>

\* getSchemaHashes has returned schemaHashes; getImpactedOwners sends the diff
\* query with them
ReturnSchemaHashes(p, answer, schemaHashes) ==
    [p EXCEPT !.pc = "awaitDiff", !.hashesResponse = answer,
              !.schemaHashes = Computed(schemaHashes),
              !.calls = Append(p.calls, DiffCall(p.event, schemaHashes))]

\* the schema-hash query resolved: a null build result of the revision starts
\* the delay, anything else ends getSchemaHashes
HashesResolved ==
    /\ proposal.pc = "awaitHashes"
    /\ \E answer \in HashesResolutions(proposal) :
           proposal' =
               IF answer.kind = "data" /\ answer.revision = BuildNull
                   THEN [proposal EXCEPT !.pc = "delay", !.hashesResponse = answer]
               ELSE ReturnSchemaHashes(proposal, answer, SchemaHashesOf(answer))
    /\ UNCHANGED <<requestVars, diffVars, mapperVars, processVars, ruleVars>>

\* the schema-hash query rejected: catch (e) and return ['', '']
HashesRejected ==
    /\ proposal.pc = "awaitHashes"
    /\ proposal' = ReturnSchemaHashes(proposal,
                                      [kind |-> "rejected", revision |-> BuildNull,
                                       source |-> BuildNull],
                                      <<"", "">>)
    /\ UNCHANGED <<requestVars, diffVars, mapperVars, processVars, ruleVars>>

\* await delay(2000); return getSchemaHashes(variantId, graphId);
DelayElapsed ==
    /\ proposal.pc = "delay"
    /\ proposal' = [proposal EXCEPT !.pc = "awaitHashes",
                                    !.calls = Append(proposal.calls, HashesCall(proposal.event))]
    /\ UNCHANGED <<requestVars, diffVars, mapperVars, processVars, ruleVars>>

\* getImpactedOwners has returned email; setReviewer computes apolloUserId
\* outside its try block and then sends the mutation
SetReviewer(p, email) ==
    LET capitalized == capitalizeWords(email)
    IN  IF capitalized.thrown # "none"
            THEN [p EXCEPT !.pc = "thrown", !.ownerEmail = Computed(email),
                           !.thrown = capitalized.thrown]
        ELSE [p EXCEPT !.pc = "awaitReviewer", !.ownerEmail = Computed(email),
                       !.calls = Append(p.calls,
                                        ReviewerCall(p.event,
                                                     <<apolloUserPrefix>> \o capitalized.value))]

DiffResolved ==
    /\ proposal.pc = "awaitDiff"
    /\ \E answer \in DiffResolutions(proposal) :
           proposal' = SetReviewer(proposal, ImpactedOwner(answer))
    /\ UNCHANGED <<requestVars, diffVars, mapperVars, processVars, ruleVars>>

\* the diff query rejected: catch (e) and return ''
DiffRejected ==
    /\ proposal.pc = "awaitDiff"
    /\ proposal' = SetReviewer(proposal, NoEmail)
    /\ UNCHANGED <<requestVars, diffVars, mapperVars, processVars, ruleVars>>

\* the mutation resolved: response.data.graph.variant.proposal is logged, a
\* TypeError on the way is caught
ReviewerResolved ==
    /\ proposal.pc = "awaitReviewer"
    /\ \E result \in {"resolved", "pathNull"} :
           proposal' = [proposal EXCEPT !.pc = "done", !.reviewerResult = result]
    /\ UNCHANGED <<requestVars, diffVars, mapperVars, processVars, ruleVars>>

\* the mutation rejected: catch (error)
ReviewerRejected ==
    /\ proposal.pc = "awaitReviewer"
    /\ proposal' = [proposal EXCEPT !.pc = "done", !.reviewerResult = "rejected"]
    /\ UNCHANGED <<requestVars, diffVars, mapperVars, processVars, ruleVars>>

ProposalNext ==
    \/ ProposalReadBody
    \/ ProposalReject
    \/ ProposalParseAndQuery
    \/ HashesResolved
    \/ HashesRejected
    \/ DelayElapsed
    \/ DiffResolved
    \/ DiffRejected
    \/ ReviewerResolved
    \/ ReviewerRejected

SpecProposals == ProposalInit /\ [][ProposalNext]_vars

(***************************************************************************)
(* C21                                                                     *)
(***************************************************************************)
\* the document the callback evaluated: the source of the subgraph's entry,
\* a string that graphql's parse accepts
RuleParsed ==
    /\ ~rule.result.pending
    /\ SourceOf(rule.docsResult, rule.subgraph.hash).isString
    /\ parse(SourceOf(rule.docsResult, rule.subgraph.hash).id).thrown = "none"

RuleDefinitions == parse(SourceOf(rule.docsResult, rule.subgraph.hash).id).definitions

\* some schema definition or schema extension block of the document carries a
\* directive named contact
SomeBlockCarriesContact ==
    \E i \in 1..Len(RuleDefinitions) :
        /\ IsSchemaNode(RuleDefinitions[i])
        /\ \E j \in 1..Len(RuleDefinitions[i].directives) :
               RuleDefinitions[i].directives[j].name = "contact"

MissingDirectiveEmitted ==
    /\ rule.result.value.kind = "object"
    /\ rule.result.value.items[1].message = "Subgraphs must contain a contact directive"

\* C21: Strategy A emits the missing-directive violation if and only if no
\* schema definition and no schema extension block of the SDL carries a
\* directive named contact, whatever the number and the order of the blocks.
C21_AnyBlockIsSearched ==
    RuleParsed => (MissingDirectiveEmitted <=> ~SomeBlockCarriesContact)

(***************************************************************************)
(* C22                                                                     *)
(***************************************************************************)
\* the last answer to the schema-hash query carried a null build result of
\* the proposal revision
LastBuildNull ==
    proposal.hashesResponse.kind = "data" /\ proposal.hashesResponse.revision = BuildNull

\* the last answer carried a build result of the revision that is not null
LastBuildReady ==
    proposal.hashesResponse.kind = "data" /\ proposal.hashesResponse.revision # BuildNull

DiffCalls == {i \in 1..Len(proposal.calls) : proposal.calls[i].kind = "diff"}

\* a null build result makes getSchemaHashes wait: nothing is returned and
\* no diff query is sent
WaitsWhileNull ==
    proposal.pc = "delay" => (LastBuildNull /\ proposal.schemaHashes.pending /\ DiffCalls = {})

\* what getSchemaHashes returns was never read from an answer with a null
\* build result
NeverFromNull == ~proposal.schemaHashes.pending => ~LastBuildNull

\* an answer with a build result that is not null ends getSchemaHashes with
\* the old and the new hash of that answer
ReturnsHashesOfAnswer ==
    (LastBuildReady /\ proposal.pc # "awaitHashes") =>
        /\ ~proposal.schemaHashes.pending
        /\ proposal.schemaHashes.value[1] \in OldHashes
        /\ proposal.schemaHashes.value[2] \in NewHashes
        /\ proposal.schemaHashes.value =
               <<proposal.hashesResponse.source.coreHash,
                 proposal.hashesResponse.revision.coreHash>>

\* the diff query is sent after getSchemaHashes has returned, with what it
\* returned
DiffAfterHashes ==
    \A i \in DiffCalls :
        /\ ~proposal.schemaHashes.pending
        /\ proposal.calls[i].hashes = proposal.schemaHashes.value
        /\ \A j \in 1..Len(proposal.calls) : proposal.calls[j].kind = "hashes" => j < i

\* C22: getSchemaHashes polls until ready: while the build result of the
\* proposal revision is null it waits and re-issues the query, it never
\* returns hashes read from an answer whose build result is null, a build
\* result that is not null ends it with the [old, new] hashes of that answer,
\* and applyReviewers sends the diff query only after that.
C22_PollsUntilReady ==
    /\ WaitsWhileNull
    /\ NeverFromNull
    /\ ReturnsHashesOfAnswer
    /\ DiffAfterHashes

(***************************************************************************)
(* C23                                                                     *)
(***************************************************************************)
ReviewerCalls == {i \in 1..Len(proposal.calls) : proposal.calls[i].kind = "reviewer"}

\* getSchemaHashes returned without both hashes
HashLookupFailed ==
    ~proposal.schemaHashes.pending /\ "" \in Range(proposal.schemaHashes.value)

\* getImpactedOwners returned '': the diff query failed or no item of the
\* diff holds an @owner directive
NoOwnerFound == ~proposal.ownerEmail.pending /\ proposal.ownerEmail.value = NoEmail

\* C23: applyReviewers sends the reviewer mutation at most once per event, and
\* when the schema-hash lookup fails, the diff lookup fails, or no diff item
\* holds an @owner directive, it ends normally, without throwing and without
\* sending a reviewer mutation.
C23_QuietWhenNoOwner ==
    /\ Cardinality(ReviewerCalls) <= 1
    /\ (HashLookupFailed \/ NoOwnerFound) =>
           /\ ReviewerCalls = {}
           /\ proposal.thrown = "none"
           /\ proposal.pc # "thrown"

(***************************************************************************)
(* C24                                                                     *)
(***************************************************************************)
\* the x-apollo-signature header is the signature of the payload the handler
\* read, under the handler's secret
NotificationSignatureMatches ==
    proposal.req.signature =
        SignatureHeader("sha256=",
                        HexDigest(Hmac(proposal.hmacSecret, ReadPayload(proposal.req.body))))

\* hash query, diff query, reviewer mutation
CallRank(call) ==
    CASE call.kind = "hashes" -> 1
      [] call.kind = "diff" -> 2
      [] OTHER -> 3

\* C24: for a notification whose signature does not match, applyReviewers
\* returns without the schema-hash query, the diff query or the reviewer
\* mutation; each of the three calls happens only after the signature check
\* has passed, in the order hash query, diff query, reviewer mutation.
C24_NothingBeforeTheSignatureCheck ==
    /\ ~NotificationSignatureMatches =>
           /\ proposal.calls = <<>>
           /\ proposal.pc \in {"start", "read", "unauthorized"}
    /\ proposal.calls # <<>> =>
           /\ NotificationSignatureMatches
           /\ proposal.pc \notin {"start", "read", "unauthorized"}
           /\ proposal.calls[1].kind = "hashes"
    /\ \A i, j \in 1..Len(proposal.calls) :
           i < j => /\ CallRank(proposal.calls[i]) <= CallRank(proposal.calls[j])
                    /\ CallRank(proposal.calls[i]) = CallRank(proposal.calls[j])
                           => proposal.calls[i].kind = "hashes"
    /\ ReviewerCalls # {} => DiffCalls # {}

\* a notification with a signature header that does not match has been
\* turned away
C24_Witness ==
    /\ proposal.pc = "unauthorized"
    /\ proposal.req.body \in {SerializeNotification(e) : e \in ProposalNotificationEvents}
    /\ proposal.req.signature.present
    /\ ~NotificationSignatureMatches

====
